---- MODULE Spec2Model ----
(***************************************************************************)
(* Model of the coding-challenge core of the Firewall runner game:         *)
(* the LeetCodeChallenge scene (trial run, final run, skip, three-strikes  *)
(* policy) and the parts of the Game scene that launch and close it.       *)
(***************************************************************************)
EXTENDS Integers, Sequences, FiniteSets, TLC

(***************************************************************************)
(* Bounds of the model.                                                    *)
(***************************************************************************)
\* executionTime = performance.now() - startTime is any duration >= 0;
\* the model draws it from 0..MaxExecTime.
MaxExecTime == 1
\* the number of body lines of a generated source text
MaxBodyLines == 3
\* the numbers -MaxArgument .. MaxArgument are given to a compiled function
MaxArgument == 2
\* update is not taken once Game.distance exceeds this many pixels
MaxDistance == 150
\* the lasers that exist or are on cooldown at the same time
MaxLasers == 2
\* the diamonds the player overlaps in one physics step
MaxOverlaps == 2

(***************************************************************************)
(* Values of the host runtime, tagged by type.                             *)
(***************************************************************************)
Num(n) == [t |-> "num", v |-> n]
Bool(b) == [t |-> "bool", v |-> b]
Arr(s) == [t |-> "arr", v |-> s]
Undefined == [t |-> "undefined"]
Null == [t |-> "null"]
\* an array that contains itself (a = []; a.append(a))
Cyclic == [t |-> "cyclic"]

\* Array.isArray(x)
IsArray(x) == x.t \in {"arr", "cyclic"}

\* JSON text of a sequence of already serialized elements, joined by ","
RECURSIVE JoinComma(_)
JoinComma(ss) ==
    IF ss = <<>> THEN ""
    ELSE IF Len(ss) = 1 THEN ss[1]
    ELSE ss[1] \o "," \o JoinComma(Tail(ss))

\* the text of an integer as JSON.stringify writes it
NumText(n) == IF n < 0 THEN "-" \o ToString(-n) ELSE ToString(n)

\* JSON.stringify(x) for a value nested in an array: undefined becomes null
RECURSIVE ElementText(_)
ElementText(x) ==
    CASE x.t = "num" -> NumText(x.v)
      [] x.t = "bool" -> IF x.v THEN "true" ELSE "false"
      [] x.t = "null" -> "null"
      [] x.t = "undefined" -> "null"
      [] x.t = "arr" -> "[" \o JoinComma([i \in 1..Len(x.v) |-> ElementText(x.v[i])]) \o "]"

\* does x hold a reference cycle (JSON.stringify throws on it)
RECURSIVE HasCycle(_)
HasCycle(x) ==
    CASE x.t = "cyclic" -> TRUE
      [] x.t = "arr" -> \E i \in 1..Len(x.v) : HasCycle(x.v[i])
      [] OTHER -> FALSE

CircularMessage == "Converting circular structure to JSON"

\* JSON.stringify(x): a text, the value undefined (for undefined), or a throw
JSONstringify(x) ==
    IF HasCycle(x) THEN [thrown |-> TRUE, isError |-> TRUE, message |-> CircularMessage]
    ELSE IF x.t = "undefined" THEN [thrown |-> FALSE, value |-> Undefined]
    ELSE [thrown |-> FALSE, value |-> [t |-> "str", v |-> ElementText(x)]]

(***************************************************************************)
(* Source texts the player can have in the editor.  A source is given by   *)
(* what the transpiler reads from it: whether a header                     *)
(* def <name>(<params>): is found, the captured name and parameter list,   *)
(* the program its body translates to, and the SyntaxError (if any) that   *)
(* new Function raises on the emitted text.                                *)
(***************************************************************************)
Source(def, name, params, body, syntaxError) ==
    [def |-> def, functionName |-> name, params |-> params, body |-> body,
     syntaxError |-> syntaxError]

\* def contains_duplicate(nums):
\*     seen = set()
\*     for n in nums:
\*         if n in seen:
\*             return True
\*         seen.add(n)
\*     return False
SrcDuplicate == Source(TRUE, "contains_duplicate", <<"nums">>, "dup", "")
\* def pick_second(a, b):
\*     return b
SrcSecond == Source(TRUE, "pick_second", <<"a", "b">>, "second", "")
\* def count(nums):
\*     return len(nums)
SrcLen == Source(TRUE, "count", <<"nums">>, "len", "")
\* def solve(x):
\*     return y
SrcUnbound == Source(TRUE, "solve", <<"x">>, "unbound", "")
\* def solve(x):
\*     a = []
\*     a.append(a)
\*     return a
SrcCyclic == Source(TRUE, "solve", <<"x">>, "cyclic", "")
\* def solve(x):
\*     throw 'boom'
SrcThrowString == Source(TRUE, "solve", <<"x">>, "throwString", "")
\* def solve(x):
\*     return x +
SrcSyntaxError == Source(TRUE, "solve", <<"x">>, "none", "Unexpected token '}'")
\* print(1)
SrcNoDef == Source(FALSE, "", <<>>, "none", "")

\* def <functionName>(<parameters>):
\*     # Write your solution here
\*     pass
starterCodePython(functionName, parameters) ==
    Source(TRUE, functionName, parameters, "pass", "")

EditedSources ==
    {SrcDuplicate, SrcSecond, SrcLen, SrcUnbound, SrcCyclic, SrcThrowString,
     SrcSyntaxError, SrcNoDef}

(***************************************************************************)
(* Compilation.                                                            *)
(***************************************************************************)
Str(s) == [t |-> "str", v |-> s]

\* throw new Error(message) (or a TypeError, ReferenceError, SyntaxError)
Throw(message) == [thrown |-> TRUE, isError |-> TRUE, message |-> message]
\* throw of a string that is no Error instance
ThrowString(s) == [thrown |-> TRUE, isError |-> FALSE, string |-> s]
Return(value) == [thrown |-> FALSE, value |-> value]

\* error instanceof Error ? error.message : String(error)
ErrorText(error) == IF error.isError THEN error.message ELSE error.string

\* a transpiler that goes on without a header and emits an empty function
transpilePythonToJS_NoHeaderCheck(pythonCode) ==
    IF pythonCode.syntaxError # ""
    THEN Throw("Python transpilation error: " \o pythonCode.syntaxError)
    ELSE Return([functionName |-> pythonCode.functionName,
                 params |-> pythonCode.params,
                 body |-> IF pythonCode.def THEN pythonCode.body ELSE "pass"])

\* transpilePythonToJS: the callable, or an Error whose message is prefixed
\* by "Python transpilation error: "
transpilePythonToJS(pythonCode) ==
    IF ~pythonCode.def
    THEN Throw("Python transpilation error: "
                        \o "Could not find Python function definition")
    ELSE IF pythonCode.syntaxError # ""
    THEN Throw("Python transpilation error: " \o pythonCode.syntaxError)
    ELSE Return([functionName |-> pythonCode.functionName,
                 params |-> pythonCode.params,
                 body |-> pythonCode.body])

\* evaluateUserCode: rethrows as "Compilation error: <message>"
evaluateUserCode(code) ==
    LET r == transpilePythonToJS(code)
    IN  IF r.thrown THEN Throw("Compilation error: " \o ErrorText(r)) ELSE r

(***************************************************************************)
(* Invocation of a compiled function: userFunction(...args).               *)
(***************************************************************************)
\* the i-th positional argument; a missing argument reads as undefined
Arg(args, i) == IF i <= Len(args) THEN args[i] ELSE Undefined

HasDuplicate(s) == \E i, j \in 1..Len(s) : i < j /\ s[i] = s[j]

Invoke(fn, args) ==
    LET a == Arg(args, 1)
    IN  CASE fn.body = "dup" ->
               IF a.t = "arr" THEN Return(Bool(HasDuplicate(a.v)))
               ELSE Throw("nums is not iterable")
          [] fn.body = "second" -> Return(Arg(args, 2))
          [] fn.body = "len" ->
               IF a.t = "arr" THEN Return(Num(Len(a.v)))
               ELSE IF a.t \in {"undefined", "null"}
               THEN Throw("Cannot read properties of " \o a.t
                                   \o " (reading 'length')")
               ELSE Return(Undefined)
          [] fn.body = "unbound" -> Throw("y is not defined")
          [] fn.body = "cyclic" -> Return(Cyclic)
          [] fn.body = "throwString" -> ThrowString("boom")
          [] fn.body = "pass" -> Return(Undefined)

(***************************************************************************)
(* Challenges (the cached challenge data) and problems.                    *)
(***************************************************************************)
TestCase(input, expected) == [input |-> input, expected |-> expected]

Nums(s) == Arr([i \in 1..Len(s) |-> Num(s[i])])

Challenge(id, functionName, testCases) ==
    [id |-> id, functionName |-> functionName, testCases |-> testCases]

ChDuplicate ==
    Challenge("white_01", "contains_duplicate",
              <<TestCase(Nums(<<1, 2, 3, 1>>), Bool(TRUE)),
                TestCase(Nums(<<1, 2, 3>>), Bool(FALSE))>>)
\* the same detector, each input holding the argument list [nums]
ChWrapped ==
    Challenge("white_02", "contains_duplicate",
              <<TestCase(Arr(<<Nums(<<1, 2, 1>>)>>), Bool(TRUE)),
                TestCase(Arr(<<Nums(<<1, 2>>)>>), Bool(FALSE))>>)
ChSecond ==
    Challenge("white_03", "pick_second",
              <<TestCase(Nums(<<1, 2>>), Num(2)),
                TestCase(Nums(<<3, 4>>), Num(4))>>)
ChMixed ==
    Challenge("blue_01", "count",
              <<TestCase(Num(5), Num(0)),
                TestCase(Nums(<<1, 1>>), Num(2)),
                TestCase(Null, Num(0))>>)
ChNoCases == Challenge("black_01", "solve", <<>>)

challenges == {ChDuplicate, ChWrapped, ChSecond, ChMixed, ChNoCases}

\* ids a collected diamond can carry; "white_99" is in no challenge
DiamondChallengeIds == {c.id : c \in challenges} \cup {"white_99"}

\* String.fromCharCode(97 + index)
ParameterNames == <<"a", "b", "c", "d", "e", "f">>

\* Game.extractParameters(input); input is absent when there is no first case
extractParameters(hasInput, input) ==
    IF hasInput /\ IsArray(input)
    THEN [index \in 1..Len(input.v) |-> ParameterNames[index]]
    ELSE <<"n">>

\* Game.convertChallengeToProblem: the fields the challenge scene reads
convertChallengeToProblem(challenge) ==
    LET parameters ==
            IF challenge.testCases = <<>> THEN extractParameters(FALSE, Undefined)
            ELSE extractParameters(TRUE, challenge.testCases[1].input)
    IN  [id |-> challenge.id,
         parameters |-> parameters,
         starterCodePython |-> starterCodePython(challenge.functionName, parameters),
         testCases |-> challenge.testCases,
         hiddenTestCases |-> <<>>]

(***************************************************************************)
(* The test harness.  The per-case code is written twice in the source,    *)
(* once in runTests and once in submitSolution, and so it is here.         *)
(***************************************************************************)
TestResult(passed, input, expected, actual, error, executionTime) ==
    [passed |-> passed, input |-> input, expected |-> expected,
     actual |-> actual, error |-> error, executionTime |-> executionTime]

\* runTests: the arguments of the call for one case
runTestsArgs(testCase, problem) ==
    IF IsArray(testCase.input)
    THEN IF Len(testCase.input.v) = Len(problem.parameters)
         THEN testCase.input.v
         ELSE <<testCase.input>>
    ELSE <<testCase.input>>

\* runTestsCase whose catch keeps the time measured so far
runTestsCase_TimedCatch(userFunction, testCase, problem, elapsed) ==
    LET call == Invoke(userFunction, runTestsArgs(testCase, problem))
        caught(error) ==
            TestResult(FALSE, testCase.input, testCase.expected, Null,
                       Str(ErrorText(error)), elapsed)
    IN  IF call.thrown THEN caught(call)
        ELSE IF JSONstringify(call.value).thrown
        THEN caught(JSONstringify(call.value))
        ELSE TestResult(JSONstringify(call.value).value
                            = JSONstringify(testCase.expected).value,
                        testCase.input, testCase.expected, call.value, Null, elapsed)

\* runTests: the result of one case; elapsed is performance.now() - startTime
runTestsCase(userFunction, testCase, problem, elapsed) ==
    LET call == Invoke(userFunction, runTestsArgs(testCase, problem))
        caught(error) ==
            TestResult(FALSE, testCase.input, testCase.expected, Null,
                       Str(ErrorText(error)), 0)
    IN  IF call.thrown THEN caught(call)
        ELSE LET actual == call.value
                 textActual == JSONstringify(actual)
                 textExpected == JSONstringify(testCase.expected)
             IN  IF textActual.thrown THEN caught(textActual)
                 ELSE IF textExpected.thrown THEN caught(textExpected)
                 ELSE TestResult(textActual.value = textExpected.value,
                                 testCase.input, testCase.expected, actual,
                                 Null, elapsed)

\* submitSolutionArgs that never spreads the input
submitSolutionArgs_NeverSpread(testCase, problem) == <<testCase.input>>

\* submitSolution: the arguments of the call for one case
submitSolutionArgs(testCase, problem) ==
    IF IsArray(testCase.input)
    THEN IF Len(testCase.input.v) = Len(problem.parameters)
         THEN testCase.input.v
         ELSE <<testCase.input>>
    ELSE <<testCase.input>>

\* submitSolutionCase that compares the returned value with the input
submitSolutionCase_ComparesInput(userFunction, testCase, problem, elapsed) ==
    LET call == Invoke(userFunction, submitSolutionArgs(testCase, problem))
        caught(error) ==
            TestResult(FALSE, testCase.input, testCase.expected, Null,
                       Str(ErrorText(error)), 0)
    IN  IF call.thrown THEN caught(call)
        ELSE LET actual == call.value
                 textActual == JSONstringify(actual)
                 textExpected == JSONstringify(testCase.input)
             IN  IF textActual.thrown THEN caught(textActual)
                 ELSE IF textExpected.thrown THEN caught(textExpected)
                 ELSE TestResult(textActual.value = textExpected.value,
                                 testCase.input, testCase.expected, actual,
                                 Null, elapsed)

\* submitSolution: the result of one case
submitSolutionCase(userFunction, testCase, problem, elapsed) ==
    LET call == Invoke(userFunction, submitSolutionArgs(testCase, problem))
        caught(error) ==
            TestResult(FALSE, testCase.input, testCase.expected, Null,
                       Str(ErrorText(error)), 0)
    IN  IF call.thrown THEN caught(call)
        ELSE LET actual == call.value
                 textActual == JSONstringify(actual)
                 textExpected == JSONstringify(testCase.expected)
             IN  IF textActual.thrown THEN caught(textActual)
                 ELSE IF textExpected.thrown THEN caught(textExpected)
                 ELSE TestResult(textActual.value = textExpected.value,
                                 testCase.input, testCase.expected, actual,
                                 Null, elapsed)

\* runTestsMap with the per-case try/catch missing its effect: the first
\* throwing invocation ends the loop
RECURSIVE runTestsMap_StopAtThrow(_, _, _, _)
runTestsMap_StopAtThrow(userFunction, testCases, problem, times) ==
    IF testCases = <<>> THEN [results |-> <<>>, calls |-> <<>>]
    ELSE LET args == runTestsArgs(Head(testCases), problem)
             rest == IF Invoke(userFunction, args).thrown
                     THEN [results |-> <<>>, calls |-> <<>>]
                     ELSE runTestsMap_StopAtThrow(userFunction, Tail(testCases),
                                                  problem, Tail(times))
         IN  [results |->
                  <<runTestsCase(userFunction, Head(testCases), problem, Head(times))>>
                      \o rest.results,
              calls |-> <<args>> \o rest.calls]

\* runTests: this.problem.testCases.map(...); times[i] is the time measured
\* for case i.  Gives the results and, per invocation, the arguments passed.
RECURSIVE runTestsMap(_, _, _, _)
runTestsMap(userFunction, testCases, problem, times) ==
    IF testCases = <<>> THEN [results |-> <<>>, calls |-> <<>>]
    ELSE LET rest == runTestsMap(userFunction, Tail(testCases), problem, Tail(times))
         IN  [results |->
                  <<runTestsCase(userFunction, Head(testCases), problem, Head(times))>>
                      \o rest.results,
              calls |-> <<runTestsArgs(Head(testCases), problem)>> \o rest.calls]

\* submitSolutionMap that loses the results gathered before a throwing case
RECURSIVE submitSolutionMap_ResetAtThrow(_, _, _, _)
submitSolutionMap_ResetAtThrow(userFunction, allTests, problem, times) ==
    IF allTests = <<>> THEN [results |-> <<>>, calls |-> <<>>]
    ELSE LET n == Len(allTests)
             args == submitSolutionArgs(allTests[n], problem)
             before == submitSolutionMap_ResetAtThrow(userFunction,
                           SubSeq(allTests, 1, n - 1), problem, SubSeq(times, 1, n - 1))
         IN  [results |->
                  (IF Invoke(userFunction, args).thrown THEN <<>> ELSE before.results)
                      \o <<submitSolutionCase(userFunction, allTests[n], problem,
                                              times[n])>>,
              calls |-> before.calls \o <<args>>]

\* submitSolutionMap that leaves out the result of a case that throws
RECURSIVE submitSolutionMap_SkipThrown(_, _, _, _)
submitSolutionMap_SkipThrown(userFunction, allTests, problem, times) ==
    IF allTests = <<>> THEN [results |-> <<>>, calls |-> <<>>]
    ELSE LET args == submitSolutionArgs(Head(allTests), problem)
             rest == submitSolutionMap_SkipThrown(userFunction, Tail(allTests),
                                                  problem, Tail(times))
         IN  [results |->
                  (IF Invoke(userFunction, args).thrown THEN <<>>
                   ELSE <<submitSolutionCase(userFunction, Head(allTests), problem,
                                             Head(times))>>) \o rest.results,
              calls |-> <<args>> \o rest.calls]

\* submitSolution: allTests.map(...)
RECURSIVE submitSolutionMap(_, _, _, _)
submitSolutionMap(userFunction, allTests, problem, times) ==
    IF allTests = <<>> THEN [results |-> <<>>, calls |-> <<>>]
    ELSE LET rest == submitSolutionMap(userFunction, Tail(allTests), problem, Tail(times))
         IN  [results |->
                  <<submitSolutionCase(userFunction, Head(allTests), problem, Head(times))>>
                      \o rest.results,
              calls |-> <<submitSolutionArgs(Head(allTests), problem)>> \o rest.calls]

\* a trial run that is given the hidden cases too
visibleTestsOf_WithHidden(problem) == problem.testCases \o problem.hiddenTestCases

\* runTests: the cases of a trial run, this.problem.testCases
visibleTestsOf(problem) == problem.testCases

\* submitSolution: [...testCases, ...(hiddenTestCases || [])]
allTestsOf(problem) == problem.testCases \o problem.hiddenTestCases

\* results.some(r => r.passed)
allPassed_Some(results) == \E i \in 1..Len(results) : results[i].passed

\* results.every(r => r.passed)
allPassed(results) == \A i \in 1..Len(results) : results[i].passed

(***************************************************************************)
(* Problems the challenge scene is created with.                           *)
(***************************************************************************)
\* problems that carry hidden cases (convertChallengeToProblem supplies none)
WithHidden(challenge, hidden) ==
    [convertChallengeToProblem(challenge) EXCEPT !.hiddenTestCases = hidden]

HiddenProblems ==
    {WithHidden(ChSecond, <<TestCase(Nums(<<1, 2, 3>>), Null),
                            TestCase(Num(7), Num(7))>>),
     WithHidden(ChWrapped, <<TestCase(Arr(<<Nums(<<4, 4>>)>>), Bool(TRUE))>>)}

NoProblem ==
    [id |-> "", parameters |-> <<>>,
     starterCodePython |-> Source(FALSE, "", <<>>, "none", ""),
     testCases |-> <<>>, hiddenTestCases |-> <<>>]

(***************************************************************************)
(* Source text, line by line (transpilePythonToJS reads the text with      *)
(* regular expressions).  A line is its leading whitespace (a number of    *)
(* characters: spaces or tabs) and its trimmed text, a sequence of         *)
(* lexemes; a lexeme is a maximal run of word characters (\w+) or a        *)
(* punctuation mark, with sp telling whether whitespace (one space)        *)
(* precedes it.  Two glued lexemes are never both words, so a word lexeme  *)
(* is delimited by word boundaries (\b).                                   *)
(***************************************************************************)
\* a lexeme after one space / glued to what precedes it
W(s) == [s |-> s, sp |-> TRUE]
G(s) == [s |-> s, sp |-> FALSE]

Line(indent, text) == [indent |-> indent, text |-> text]

DQ3 == "\"\"\""
SQ3 == "'''"

\* lexemes that are no word (\w+)
NonWord ==
    {":", "(", ")", ".", ",", ";", ">", "<", "=", "==", "+", "-", "!", "&&",
     "||", "{", "}", "?", "#", DQ3, SQ3}

IsWord(lexeme) == lexeme.s \notin NonWord

\* the text s.includes('for'), for the words of this model
IncludesFor(s) == s \in {"for", "before"}

\* the text s.startsWith('return'), for the words of this model
StartsWithReturn(s) == s \in {"return", "returned"}

\* s.substring(6) of a word that starts with 'return'
AfterReturn(s) == IF s = "returned" THEN "ed" ELSE ""

\* the length of a lexeme's text, for the lexemes of this model
StrLen(s) ==
    CASE s \in {":", "(", ")", ".", ",", ";", ">", "<", "=", "+", "-", "!",
                "{", "}", "?", "#", "x", "y", "n", "0", "1", "a", "b", "c"} -> 1
      [] s \in {"==", "&&", "||", "if", "in", "or", "ed"} -> 2
      [] s \in {DQ3, SQ3, "for", "def", "not", "and", "len", "set", "abs",
                "max", "min", "doc", "end", "has", "new", "Set"} -> 3
      [] s \in {"else", "elif", "pass", "True", "None", "nums", "seen",
                "self", "more", "note", "true", "null", "this"} -> 4
      [] s \in {"while", "False", "solve", "const", "false"} -> 5
      [] s \in {"return", "before", "append", "remove", "length"} -> 6
      [] s \in {"returned", "function"} -> 8

\* s.substring(k) for 0 < k < s.length, for the words a dedent cuts into
Substring(s, k) ==
    CASE s = "return" -> <<"eturn", "turn", "urn", "rn", "n">>[k]
      [] s = "else" -> <<"lse", "se", "e">>[k]
      [] s = "if" -> <<"f">>[k]

\* text.substring(k): the text without its first k characters
RECURSIVE Chop(_, _)
Chop(text, k) ==
    IF k <= 0 \/ text = <<>> THEN text
    ELSE LET first == Head(text)
         IN  IF first.sp
             THEN Chop(<<G(first.s)>> \o Tail(text), k - 1)
             ELSE IF k >= StrLen(first.s) THEN Chop(Tail(text), k - StrLen(first.s))
             ELSE <<G(Substring(first.s, k))>> \o Tail(text)

\* texts
Glue(text) == IF text = <<>> THEN text ELSE <<G(text[1].s)>> \o Tail(text)
Spaced(text) == IF text = <<>> THEN text ELSE <<W(text[1].s)>> \o Tail(text)
Last(text) == text[Len(text)]
Front(text) == SubSeq(text, 1, Len(text) - 1)
From(text, k) == SubSeq(text, k, Len(text))

\* the characters of a text, as one string
RECURSIVE TextOf(_)
TextOf(text) ==
    IF text = <<>> THEN ""
    ELSE (IF Head(text).sp THEN " " ELSE "") \o Head(text).s \o TextOf(Tail(text))

\* line.trim()
trim(line) == Glue(line.text)

(***************************************************************************)
(* The regular expressions of transpilePythonToJS, on lexemes.             *)
(***************************************************************************)
\* pythonCode.match(/def\s+(\w+)\s*\((.*?)\):/) within one line: the places
\* <<k, j>> where def is at k and the first "):" after the "(" is at j
HeaderPlaces(text) ==
    {p \in (1..Len(text)) \X (1..Len(text)) :
        LET k == p[1]
            j == p[2]
        IN  /\ k + 3 <= j /\ j + 1 <= Len(text)
            /\ text[k].s = "def"
            /\ text[k + 1].sp /\ IsWord(text[k + 1])
            /\ text[k + 2].s = "("
            /\ text[j].s = ")"
            /\ text[j + 1].s = ":" /\ ~text[j + 1].sp
            /\ \A m \in (k + 3)..(j - 1) :
                   ~(text[m].s = ")" /\ text[m + 1].s = ":" /\ ~text[m + 1].sp)}

Min(S) == CHOOSE m \in S : \A n \in S : m <= n

\* the leftmost match in a line: found, and the captured name and parameters
lineHeaderMatch(line) ==
    LET text == line.text
        places == HeaderPlaces(text)
    IN  IF places = {} THEN [found |-> FALSE]
        ELSE LET k == Min({p[1] : p \in places})
                 j == CHOOSE j \in 1..Len(text) : <<k, j>> \in places
             IN  [found |-> TRUE,
                  functionName |-> text[k + 1].s,
                  params |-> Glue(SubSeq(text, k + 3, j - 1))]

\* pythonCode.match(/def\s+(\w+)\s*\((.*?)\):/): the first match in the
\* text; index is the line it is on (lines counted from 1)
RECURSIVE functionMatchFrom(_, _)
functionMatchFrom(pythonCode, index) ==
    IF index > Len(pythonCode) THEN [found |-> FALSE]
    ELSE IF lineHeaderMatch(pythonCode[index]).found
    THEN [found |-> TRUE, index |-> index,
          functionName |-> lineHeaderMatch(pythonCode[index]).functionName,
          params |-> lineHeaderMatch(pythonCode[index]).params]
    ELSE functionMatchFrom(pythonCode, index + 1)

functionMatchOf(pythonCode) == functionMatchFrom(pythonCode, 1)

(***************************************************************************)
(* The translation of one body line (the body of the for loop of           *)
(* transpilePythonToJS, after the skips).                                  *)
(***************************************************************************)
\* .replace(/\bTrue\b/g, 'true') ... .replace(/\bdef\b/g, 'function')
KeywordJS(s) ==
    CASE s = "True" -> "true"
      [] s = "False" -> "false"
      [] s = "None" -> "null"
      [] s = "and" -> "&&"
      [] s = "or" -> "||"
      [] s = "not" -> "!"
      [] s = "def" -> "function"
      [] OTHER -> s

\* the eight basic conversions; the last is .replace(/\bself\./g, 'this.')
replaceKeywords(text) ==
    [k \in 1..Len(text) |->
        [text[k] EXCEPT !.s =
            IF @ = "self" /\ k < Len(text) /\ text[k + 1] = G(".")
            THEN "this" ELSE KeywordJS(@)]]

\* .replace(/\bset\(\)/g, 'new Set()')
RECURSIVE replaceSetCalls(_)
replaceSetCalls(text) ==
    IF text = <<>> THEN text
    ELSE IF /\ Len(text) >= 3 /\ text[1].s = "set"
            /\ text[2] = G("(") /\ text[3] = G(")")
    THEN <<[s |-> "new", sp |-> text[1].sp], W("Set"), G("("), G(")")>>
         \o replaceSetCalls(From(text, 4))
    ELSE <<Head(text)>> \o replaceSetCalls(Tail(text))

\* jsLine.match(/(\w+)\s+in\s+(\w+)/): the places of the item of a match
inCheckPlaces(text) ==
    {k \in 1..(Len(text) - 2) :
        /\ IsWord(text[k])
        /\ text[k + 1] = W("in")
        /\ text[k + 2].sp /\ IsWord(text[k + 2])}

\* jsLine.includes('for')
includesFor(text) == \E k \in 1..Len(text) : IncludesFor(text[k].s)

\* if (inCheckMatch && !jsLine.includes('for'))
\*     jsLine = jsLine.replace(fullMatch, `${collection}.has(${item})`)
replaceInCheck(text) ==
    IF inCheckPlaces(text) # {} /\ ~includesFor(text)
    THEN LET k == Min(inCheckPlaces(text))
         IN  SubSeq(text, 1, k - 1)
             \o <<[s |-> text[k + 2].s, sp |-> text[k].sp], G("."), G("has"),
                  G("("), G(text[k].s), G(")")>>
             \o From(text, k + 3)
    ELSE text

\* jsLine.match(/for\s+(\w+)\s+in\s+(.+?):\s*$/): the places of the for
forLoopPlaces(text) ==
    {k \in 1..(Len(text) - 4) :
        /\ text[k].s = "for"
        /\ text[k + 1].sp /\ IsWord(text[k + 1])
        /\ text[k + 2] = W("in")
        /\ text[k + 3].sp
        /\ Last(text).s = ":"}

\* trimmed.match(/^<keyword>\s+.+:\s*$/)
isHeader(text, keyword) ==
    /\ Len(text) >= 3
    /\ text[1].s = keyword
    /\ text[2].sp
    /\ Last(text).s = ":"

\* the $1 of /<keyword>\s+(.+?):\s*$/ between parentheses: "(<condition>)"
Parenthesized(text) ==
    <<W("(")>> \o Glue(SubSeq(text, 2, Len(text) - 1))
    \o <<[s |-> ")", sp |-> Last(text).sp]>>

\* the header rewrites (from the for-loop test to the while test): the new
\* line and whether relativeIndent + 4 is pushed on indentStack
rewriteHeader(jsLine) ==
    LET text == jsLine.text
    IN  IF forLoopPlaces(text) # {}
        THEN LET k == Min(forLoopPlaces(text))
             IN  [jsLine |->
                     Line(0, <<G("for"), W("("), G("const"), W(text[k + 1].s),
                               W("of")>>
                             \o Spaced(SubSeq(text, k + 3, Len(text) - 1))
                             \o <<[s |-> ")", sp |-> Last(text).sp], W("{")>>),
                  push |-> TRUE]
        ELSE IF isHeader(text, "if")
        THEN [jsLine |-> Line(jsLine.indent,
                              <<G("if")>> \o Parenthesized(text) \o <<W("{")>>),
              push |-> TRUE]
        ELSE IF isHeader(text, "elif")
        THEN [jsLine |-> Line(jsLine.indent,
                              <<G("}"), W("else"), W("if")>>
                              \o Parenthesized(text) \o <<W("{")>>),
              push |-> FALSE]
        ELSE IF text = <<G("else"), G(":")>>
        THEN [jsLine |-> Line(jsLine.indent, <<G("}"), W("else"), W("{")>>),
              push |-> FALSE]
        ELSE IF isHeader(text, "while")
        THEN [jsLine |-> Line(jsLine.indent,
                              <<G("while")>> \o Parenthesized(text) \o <<W("{")>>),
              push |-> TRUE]
        ELSE [jsLine |-> jsLine, push |-> FALSE]

\* jsLine.trim().startsWith('return')
hasReturnOf(text) == text # <<>> /\ StartsWithReturn(text[1].s)

\* hasReturn ? jsLine.trim().substring(6).trim() : jsLine.trim()
lineWithoutReturnOf(text) ==
    IF hasReturnOf(text)
    THEN IF AfterReturn(text[1].s) = "" THEN Glue(Tail(text))
         ELSE <<G(AfterReturn(text[1].s))>> \o Tail(text)
    ELSE text

\* /^(.+?)\s+if\s+(.+?)\s+else\s+(.+)$/: the places <<k, m>> of if and else
ternaryPlaces(text) ==
    {p \in (1..Len(text)) \X (1..Len(text)) :
        LET k == p[1]
            m == p[2]
        IN  /\ 2 <= k /\ k + 2 <= m /\ m + 1 <= Len(text)
            /\ text[k] = W("if") /\ text[k + 1].sp
            /\ text[m] = W("else") /\ text[m + 1].sp}

\* the ternary rewrite that leaves the line alone
rewriteTernary_Untranslated(jsLine) == jsLine

\* the Python ternary: "a if condition else b" -> "(condition) ? (a) : (b)"
rewriteTernary(jsLine) ==
    LET trimmed == Glue(jsLine.text)
        hasReturn == hasReturnOf(trimmed)
        lineWithoutReturn == lineWithoutReturnOf(trimmed)
        places == ternaryPlaces(lineWithoutReturn)
    IN  IF places = {} THEN jsLine
        ELSE LET k == Min({p[1] : p \in places})
                 m == Min({p[2] : p \in {q \in places : q[1] = k}})
                 valueIfTrue == SubSeq(lineWithoutReturn, 1, k - 1)
                 condition == SubSeq(lineWithoutReturn, k + 1, m - 1)
                 valueIfFalse == From(lineWithoutReturn, m + 1)
                 ternaryExpr ==
                     <<G("(")>> \o Glue(condition) \o <<G(")"), W("?"), W("(")>>
                     \o Glue(valueIfTrue) \o <<G(")"), W(":"), W("(")>>
                     \o Glue(valueIfFalse) \o <<G(")")>>
             IN  Line(0, IF hasReturn THEN <<G("return")>> \o Spaced(ternaryExpr)
                         ELSE ternaryExpr)

\* .replace(/\bmax\(/g, 'Math.max(') and the same for min, abs, round
RECURSIVE replaceBuiltins(_)
replaceBuiltins(text) ==
    IF text = <<>> THEN text
    ELSE IF /\ Len(text) >= 2 /\ text[1].s \in {"max", "min", "abs", "round"}
            /\ text[2] = G("(")
    THEN <<[s |-> "Math", sp |-> text[1].sp], G("."), G(text[1].s)>>
         \o replaceBuiltins(Tail(text))
    ELSE <<Head(text)>> \o replaceBuiltins(Tail(text))

\* the first ")" of a text (0 if there is none)
firstClose(text) ==
    IF \E j \in 1..Len(text) : text[j].s = ")"
    THEN Min({j \in 1..Len(text) : text[j].s = ")"}) ELSE 0

\* jsLine.replace(/len\(([^)]+)\)/g, '$1.length')
RECURSIVE replaceLen(_)
replaceLen(text) ==
    IF text = <<>> THEN text
    ELSE IF /\ Len(text) >= 4 /\ text[1].s = "len" /\ text[2] = G("(")
            /\ firstClose(text) >= 4
    THEN <<[s |-> text[3].s, sp |-> text[1].sp \/ text[3].sp]>>
         \o SubSeq(text, 4, firstClose(text) - 1)
         \o <<[s |-> ".", sp |-> text[firstClose(text)].sp], G("length")>>
         \o replaceLen(From(text, firstClose(text) + 1))
    ELSE <<Head(text)>> \o replaceLen(Tail(text))

\* .replace(/\.append\(/g, '.push(') and .replace(/\.remove\(/g, '.delete(')
replaceMethods(text) ==
    [k \in 1..Len(text) |->
        IF /\ 1 < k /\ k < Len(text) /\ text[k - 1].s = "."
           /\ ~text[k].sp /\ text[k + 1] = G("(")
        THEN [text[k] EXCEPT !.s = CASE @ = "append" -> "push"
                                     [] @ = "remove" -> "delete"
                                     [] OTHER -> @]
        ELSE text[k]]

\* one body line: the text added to body for it and whether a level is pushed
translateLine(dedented) ==
    LET converted == replaceInCheck(replaceSetCalls(replaceKeywords(dedented.text)))
        header == rewriteHeader(Line(dedented.indent, converted))
        ternary == rewriteTernary(header.jsLine)
    IN  [jsLine |-> Line(ternary.indent,
                         replaceMethods(replaceLen(replaceBuiltins(ternary.text)))),
         push |-> header.push]

(***************************************************************************)
(* The passes of transpilePythonToJS over the body lines.                  *)
(***************************************************************************)
\* trimmed === '' || trimmed.startsWith('#')
isBlankOrComment(text) == text = <<>> \/ text[1].s = "#"

\* trimmed.startsWith('"""') || trimmed.startsWith("'''")
startsDocstring(text) == text # <<>> /\ text[1].s \in {DQ3, SQ3}

\* trimmed.endsWith(delimiter) && trimmed.length > 6, for a text that starts
\* with the delimiter
isSingleLineDocstring(text) ==
    /\ Last(text).s = text[1].s
    /\ Len(text) >= 3 \/ (Len(text) = 2 /\ text[2].sp)

\* the filter that computes nonEmptyLines; skip is skipDocstringForIndent
RECURSIVE nonEmptyLinesFrom(_, _)
nonEmptyLinesFrom(ls, skip) ==
    IF ls = <<>> THEN <<>>
    ELSE LET trimmed == trim(Head(ls))
         IN  IF isBlankOrComment(trimmed) THEN nonEmptyLinesFrom(Tail(ls), skip)
             ELSE IF startsDocstring(trimmed)
             THEN IF isSingleLineDocstring(trimmed)
                  THEN nonEmptyLinesFrom(Tail(ls), skip)
                  ELSE nonEmptyLinesFrom(Tail(ls), ~skip)
             ELSE IF skip THEN nonEmptyLinesFrom(Tail(ls), skip)
             ELSE <<Head(ls)>> \o nonEmptyLinesFrom(Tail(ls), skip)

nonEmptyLinesOf(ls) == nonEmptyLinesFrom(ls, FALSE)

\* nonEmptyLines.length > 0 ? Math.min(...indentations) : 0
minIndentOf(ls) ==
    LET nonEmptyLines == nonEmptyLinesOf(ls)
    IN  IF nonEmptyLines = <<>> THEN 0
        ELSE Min({nonEmptyLines[k].indent : k \in 1..Len(nonEmptyLines)})

\* pythonCode.split('\n').slice(1)
slicedLines(pythonCode) == Tail(pythonCode)

\* what one iteration of the loop does with its line: "skip" (blank, comment,
\* docstring or pass line) or "translate"
lineKind(line, inDoc) ==
    LET trimmed == trim(line)
    IN  IF isBlankOrComment(trimmed) THEN "skip"
        ELSE IF inDoc THEN "skip"
        ELSE IF startsDocstring(trimmed) THEN "skip"
        ELSE IF trimmed = <<G("pass")>> THEN "skip"
        ELSE "translate"

\* inDocstring after an iteration that skips its line
inDocstringAfter(line, inDoc, delimiter) ==
    LET trimmed == trim(line)
    IN  IF isBlankOrComment(trimmed) THEN inDoc
        ELSE IF inDoc THEN ~(Last(trimmed).s = delimiter)
        ELSE IF startsDocstring(trimmed) THEN ~isSingleLineDocstring(trimmed)
        ELSE inDoc

\* docstringDelimiter after an iteration that skips its line
docstringDelimiterAfter(line, inDoc, delimiter) ==
    LET trimmed == trim(line)
    IN  IF isBlankOrComment(trimmed) THEN delimiter
        ELSE IF inDoc THEN IF Last(trimmed).s = delimiter THEN "" ELSE delimiter
        ELSE IF startsDocstring(trimmed) /\ ~isSingleLineDocstring(trimmed)
        THEN trimmed[1].s
        ELSE delimiter

\* line.substring(minIndent), as the whitespace left and the text left
dedentedOf(line, min) ==
    IF line.indent >= min THEN Line(line.indent - min, line.text)
    ELSE LET rest == Chop(line.text, min - line.indent)
         IN  Line(IF rest # <<>> /\ rest[1].sp THEN 1 ELSE 0, Glue(rest))

\* the levels left on indentStack by
\* while (indentStack.length > 1 && relativeIndent < top) indentStack.pop()
\* a pop of the top level only
popTo_OneLevel(stack, relativeIndent) ==
    IF Len(stack) > 1 /\ relativeIndent < Last(stack) THEN Front(stack) ELSE stack

RECURSIVE popTo(_, _)
popTo(stack, relativeIndent) ==
    IF Len(stack) > 1 /\ relativeIndent < Last(stack)
    THEN popTo(Front(stack), relativeIndent)
    ELSE stack

\* the lines  '    '.repeat(indentStack.length) + '}'  emitted while the stack
\* goes from from levels down to to levels
\* one closing brace however many levels are popped
closingBraces_OnlyOne(from, to) ==
    IF from <= to THEN <<>> ELSE <<Line(4 * (from - 1), <<G("}")>>)>>

RECURSIVE closingBraces(_, _)
closingBraces(from, to) ==
    IF from <= to THEN <<>>
    ELSE <<Line(4 * (from - 1), <<G("}")>>)>> \o closingBraces(from - 1, to)

\* body.trim() === ''
isEmptyBody(jsLines) == \A k \in 1..Len(jsLines) : jsLines[k].text = <<>>

(***************************************************************************)
(* new Function(jsCode): the SyntaxError of the emitted text, "" if it     *)
(* parses.  The emitted lines are read for their block structure: a line   *)
(* that ends with "{" opens a block, "}" closes the innermost open block   *)
(* (or, with none open, the function itself, after which the "}" of the    *)
(* enclosing template is left over), "} else" must close an if block, and  *)
(* a statement cannot end with ":".  The messages are V8's.                *)
(***************************************************************************)
RECURSIVE syntaxErrorFrom(_, _, _)
syntaxErrorFrom(jsLines, open, outside) ==
    IF jsLines = <<>>
    THEN IF outside THEN "Unexpected token '}'"
         ELSE IF open # <<>> THEN "Unexpected token ')'"
         ELSE ""
    ELSE LET text == Head(jsLines).text
             rest == Tail(jsLines)
         IN  IF text = <<>> THEN syntaxErrorFrom(rest, open, outside)
             ELSE IF Last(text).s = ":" THEN "Unexpected token ':'"
             ELSE IF text[1].s = "}"
             THEN IF open = <<>>
                  THEN IF outside THEN "Unexpected token '}'"
                       ELSE IF Len(text) >= 2
                       THEN "Unexpected token '" \o text[2].s \o "'"
                       ELSE syntaxErrorFrom(rest, open, TRUE)
                  ELSE IF Len(text) = 1
                  THEN syntaxErrorFrom(rest, Front(open), outside)
                  ELSE IF text[2].s = "else" /\ Last(open) = "if"
                  THEN syntaxErrorFrom(rest,
                           Front(open) \o <<IF Len(text) >= 3 /\ text[3].s = "if"
                                            THEN "if" ELSE "else">>,
                           outside)
                  ELSE "Unexpected token '" \o text[2].s \o "'"
             ELSE IF Last(text).s = "{"
             THEN syntaxErrorFrom(rest, Append(open, text[1].s), outside)
             ELSE syntaxErrorFrom(rest, open, outside)

syntaxErrorOf(jsLines) == syntaxErrorFrom(jsLines, <<>>, FALSE)

(***************************************************************************)
(* The call of an emitted function whose body starts with a return         *)
(* statement: the value of                                                 *)
(*   return <e>      or      return (<e>) ? (<e>) : (<e>)                  *)
(* where <e> is a parameter, a numeral, -<parameter> or a comparison of    *)
(* two of them, on arguments that are numbers, or of   return undefined;   *)
(***************************************************************************)
\* the names of a raw parameter list
paramNames(params) == SelectSeq(params, IsWord)

NumeralValue(s) == CASE s = "0" -> 0 [] s = "1" -> 1

\* a parameter or a numeral
evalOperand(lexeme, names, args) ==
    IF lexeme.s \in {"0", "1"} THEN NumeralValue(lexeme.s)
    ELSE LET k == CHOOSE k \in 1..Len(names) : names[k].s = lexeme.s
         IN  args[k].v

evalSimple(text, names, args) ==
    CASE Len(text) = 1 -> Num(evalOperand(text[1], names, args))
      [] Len(text) = 2 /\ text[1].s = "undefined" -> Undefined
      [] Len(text) = 2 /\ text[1].s = "-" ->
             Num(0 - evalOperand(text[2], names, args))
      [] Len(text) = 3 /\ text[2].s = ">" ->
             Bool(evalOperand(text[1], names, args)
                    > evalOperand(text[3], names, args))
      [] Len(text) = 3 /\ text[2].s = "<" ->
             Bool(evalOperand(text[1], names, args)
                    < evalOperand(text[3], names, args))

\* the first place of a lexeme in a text
firstPlace(text, s) == Min({k \in 1..Len(text) : text[k].s = s})

evalExpression(text, names, args) ==
    IF \E k \in 1..Len(text) : text[k].s = "?"
    THEN LET q == firstPlace(text, "?")
             c == firstPlace(text, ":")
             condition == SubSeq(text, 2, q - 2)
             whenTrue == SubSeq(text, q + 2, c - 2)
             whenFalse == SubSeq(text, c + 2, Len(text) - 1)
         IN  IF evalSimple(condition, names, args).v
             THEN evalSimple(whenTrue, names, args)
             ELSE evalSimple(whenFalse, names, args)
    ELSE evalSimple(text, names, args)

\* fn(...args) for a function whose first statement is a return
callReturning(fn, args) ==
    Return(evalExpression(Tail(fn.body[1].text), paramNames(fn.params), args))

(***************************************************************************)
(* Source texts given to the transpiler.                                   *)
(***************************************************************************)
\* def solve(x):
HeaderLine ==
    Line(0, <<G("def"), W("solve"), G("("), G("x"), G(")"), G(":")>>)

\* the texts of the Python lines the sources are made of
PythonText ==
    [If |-> <<G("if"), W("x"), W(">"), W("0"), G(":")>>,
     ForIX |-> <<G("for"), W("i"), W("in"), W("x"), G(":")>>,
     IfI |-> <<G("if"), W("i"), W(">"), W("1"), G(":")>>,
     ReturnI |-> <<G("return"), W("i")>>,
     AssignIf |-> <<G("y"), W("="), W("x"), W("if"), W("x"), W(">"), W("0"),
            W("else"), W("0")>>,
     ReturnY |-> <<G("return"), W("y")>>,
     For |-> <<G("for"), W("n"), W("in"), W("nums"), G(":")>>,
     While |-> <<G("while"), W("x"), W(">"), W("0"), G(":")>>,
     Elif |-> <<G("elif"), W("x"), W("<"), W("0"), G(":")>>,
     Else |-> <<G("else"), G(":")>>,
     Return |-> <<G("return"), W("x")>>,
     ReturnOne |-> <<G("return"), W("1")>>,
     ReturnZero |-> <<G("return"), W("0")>>,
     ReturnTrue |-> <<G("return"), W("True")>>,
     ReturnFalse |-> <<G("return"), W("False")>>,
     Pass |-> <<G("pass")>>,
     Comment |-> <<G("#"), W("c")>>,
     Doc |-> <<G(DQ3)>>,
     IfIn |-> <<G("if"), W("x"), W("in"), W("seen"), G(":")>>,
     IfInBefore |-> <<G("if"), W("x"), W("in"), W("before"), G(":")>>,
     Seen |-> <<G("seen"), W("="), W("set"), G("("), G(")")>>,
     SeenAdd |-> <<G("seen"), G("."), G("add"), G("("), G("n"), G(")")>>,
     IfNInSeen |-> <<G("if"), W("n"), W("in"), W("seen"), G(":")>>,
     Abs |-> <<G("return"), W("x"), W("if"), W("x"), W(">"), W("0"), W("else"),
            W("-"), G("x")>>,
     Output |-> <<G("print"), G("("), G("1"), G(")")>>,
     IfX |-> <<G("if"), W("x"), G(":")>>,
     DocOpen |-> <<G(DQ3), G("doc")>>,
     DocClose |-> <<G("end"), G(DQ3)>>,
     Note |-> <<G("note")>>,
     CommentClose |-> <<G("#"), W("c"), G(DQ3)>>]

\* the source texts of the catalogue
SourceText ==
    [
     \* if -> for -> if, each one level deeper, the innermost body a return
     Nested |->
         <<HeaderLine, Line(4, PythonText.If), Line(8, PythonText.ForIX),
           Line(12, PythonText.IfI), Line(16, PythonText.ReturnI)>>,
     \* a membership test in an if header
     Member |->
         <<HeaderLine, Line(4, PythonText.Seen), Line(4, PythonText.IfIn),
           Line(8, PythonText.ReturnTrue), Line(4, PythonText.ReturnFalse)>>,
     \* a membership test in a collection whose name contains "for"
     MemberBefore |->
         <<HeaderLine, Line(4, PythonText.IfInBefore),
           Line(8, PythonText.ReturnTrue), Line(4, PythonText.ReturnFalse)>>,
     \* the conditional expression that computes the absolute value
     Abs |->
         <<HeaderLine, Line(4, PythonText.Abs)>>,
     \* a conditional expression without return
     AssignIf |->
         <<HeaderLine, Line(4, PythonText.AssignIf), Line(4, PythonText.ReturnY)>>,
     \* an if / elif / else chain, bodies indented by four spaces
     Chain |->
         <<HeaderLine, Line(4, PythonText.If), Line(8, PythonText.ReturnOne),
           Line(4, PythonText.Elif), Line(8, PythonText.ReturnZero),
           Line(4, PythonText.Else), Line(8, PythonText.Return)>>,
     \* a while loop inside an if / else
     While |->
         <<HeaderLine, Line(4, PythonText.If), Line(8, PythonText.While),
           Line(12, PythonText.ReturnOne), Line(4, PythonText.ReturnZero)>>,
     \* a block followed by a statement, indented by four spaces, two spaces, tabs
     FourSpaces |->
         <<HeaderLine, Line(4, PythonText.If), Line(8, PythonText.ReturnOne),
           Line(4, PythonText.Return)>>,
     TwoSpaces |->
         <<HeaderLine, Line(2, PythonText.If), Line(4, PythonText.ReturnOne),
           Line(2, PythonText.Return)>>,
     Tabs |->
         <<HeaderLine, Line(1, PythonText.If), Line(2, PythonText.ReturnOne),
           Line(1, PythonText.Return)>>,
     \* a blank line, or a comment line, before the header
     LeadingBlank |->
         <<Line(0, <<>>), HeaderLine, Line(4, PythonText.Return)>>,
     LeadingComment |->
         <<Line(0, PythonText.Comment), HeaderLine, Line(4, PythonText.Return)>>,
     \* a docstring that is never closed
     OpenDocstring |->
         <<HeaderLine, Line(4, PythonText.Doc), Line(4, PythonText.Return)>>,
     \* the duplicate detector (the text of SrcDuplicate)
     Duplicate |->
         <<HeaderLine, Line(4, PythonText.Seen), Line(4, PythonText.For),
           Line(8, PythonText.IfNInSeen), Line(12, PythonText.ReturnTrue),
           Line(8, PythonText.SeenAdd), Line(4, PythonText.ReturnFalse)>>,
     \* no header
     NoHeader |->
         <<Line(0, PythonText.Output)>>,
     \* a docstring of two lines: """doc / end"""
     Docstring |->
         <<HeaderLine, Line(4, PythonText.DocOpen), Line(4, PythonText.DocClose),
           Line(4, PythonText.Return)>>,
     \* a docstring of two lines, and a second one inside an if block
     NestedDocstring |->
         <<HeaderLine, Line(4, PythonText.DocOpen), Line(4, PythonText.DocClose),
           Line(4, PythonText.IfX), Line(8, PythonText.Doc),
           Line(8, PythonText.Note), Line(8, PythonText.Doc),
           Line(8, PythonText.ReturnOne), Line(4, PythonText.Return)>>,
     \* a docstring whose last line starts with # and ends with the delimiter
     CommentClose |->
         <<HeaderLine, Line(4, PythonText.Doc), Line(4, PythonText.CommentClose),
           Line(4, PythonText.Return)>>,
     \* a body of a blank line, a comment, a docstring and a pass
     OnlySkipped |->
         <<HeaderLine, Line(0, <<>>), Line(4, PythonText.Comment),
           Line(4, PythonText.DocOpen), Line(4, PythonText.DocClose),
           Line(4, PythonText.Pass)>>,
     \* a comment line before the header, and a body of a pass
     CommentThenPass |->
         <<Line(0, PythonText.Comment), HeaderLine, Line(4, PythonText.Pass)>>]

\* the texts that can be pasted into the editor
Catalogue == {SourceText[name] : name \in DOMAIN SourceText}

\* the body lines typed into the editor
GenLines ==
    {Line(4, t) : t \in {PythonText.If, PythonText.For, PythonText.Else,
                          PythonText.Return, PythonText.Pass, PythonText.Doc}}
    \cup {Line(8, t) : t \in {PythonText.If, PythonText.Return, PythonText.IfIn}}
    \cup {Line(2, PythonText.If), Line(12, PythonText.Return), Line(0, <<>>)}

\* the texts the editor can hold after one more edit: a catalogue source is
\* pasted into the empty editor, or a line is typed at the end of a text that
\* starts with the header (up to MaxBodyLines body lines)
EditedTexts(text) ==
    IF text = <<>> THEN Catalogue \cup {<<HeaderLine>>}
    ELSE IF Len(text) <= MaxBodyLines /\ text[1] = HeaderLine
    THEN {Append(text, line) : line \in GenLines}
    ELSE {}

(***************************************************************************)
(* State.                                                                  *)
(***************************************************************************)
VARIABLES
    gameScene,        \* Game scene: "running", "paused" or "stopped"
    challengeScene,   \* LeetCodeChallenge scene: "running" or "stopped"
    gameOverScene,    \* GameOver scene: "running" or "stopped"
    score,            \* Game.score, in quarters of a point
    isDiamondPaused,  \* Game.isDiamondPaused
    isPaused,         \* Game.isPaused
    distance,         \* Game.distance, in tenths of a pixel
    lastDistanceScore,  \* Game.lastDistanceScore
    lasers,           \* Game.lasers: per laser "none", "warning" or "active"
    laserHitCooldowns,  \* Game.laserHitCooldowns: per laser, 0 for no entry
    sinceHit,         \* history: per laser, the deltas update has processed
                      \* since its latest hit, capped at LASER_HIT_COOLDOWN
    removedDiamonds,  \* the sprites the latest step handed to
                      \* diamondSpawner.removeDiamond
    problem,          \* LeetCodeChallenge.problem
    code,             \* the editor's text (editor.getValue())
    failedAttempts,   \* LeetCodeChallenge.failedAttempts
    closeScheduled,   \* a delayedCall(2000, closeChallenge) is pending
    lastRun           \* what the latest run did and surfaced

\* a call of transpilePythonToJS: its parameter, its locals and its outcome
VARIABLES
    pc,                 \* "idle", "loop" (in the loop over lines) or "done"
    pythonCode,         \* the parameter: the source text, as its lines
    functionMatch,      \* pythonCode.match(/def\s+(\w+)\s*\((.*?)\):/)
    lines,              \* pythonCode.split('\n').slice(1)
    minIndent,
    indentStack,
    inDocstring,
    docstringDelimiter,
    body,               \* the emitted lines
    lineIndex,          \* the lines the loop has been through (i)
    pushCount,          \* the indentStack.push calls of this call
    closeCount,         \* the closing braces this call emitted after a pop
    transpiled,         \* what the latest call returned or threw
    remembered          \* an earlier call: its text and its outcome

\* the state of the run that Game.create resets, and the history of its hits
courseVars == <<distance, lastDistanceScore, lasers, laserHitCooldowns, sinceHit>>

gameVars == <<gameScene, challengeScene, gameOverScene, score, isDiamondPaused,
              problem, code, failedAttempts, closeScheduled, lastRun,
              isPaused, courseVars, removedDiamonds>>

transpilerVars == <<pc, pythonCode, functionMatch, lines, minIndent, indentStack,
                    inDocstring, docstringDelimiter, body, lineIndex, pushCount,
                    closeCount, transpiled, remembered>>

vars == <<gameVars, transpilerVars>>

MAX_ATTEMPTS == 3

SKIP_PENALTY == 100

scrollSpeed == 600

LASER_HIT_COOLDOWN == 200

\* the lasers, as the sprites the collision group and the cooldown map hold
Lasers == 1..MaxLasers

\* delta, the milliseconds of a frame
Deltas == {100, 834}

\* points in the unit of score: update adds 0.25 of a point per pixel
Quarters(points) == 4 * points

Max(a, b) == IF a >= b THEN a ELSE b

\* the editor's text when there is no editor
NoCode == NoProblem.starterCodePython

\* this.failedAttempts > this.MAX_ATTEMPTS
outOfAttempts_Late(attempts) == attempts > MAX_ATTEMPTS

\* submitSolution: this.failedAttempts >= this.MAX_ATTEMPTS
outOfAttempts(attempts) == attempts >= MAX_ATTEMPTS

NoRun ==
    [mode |-> "none", code |-> NoCode,
     compileError |-> Null, hasResults |-> FALSE, results |-> <<>>,
     calls |-> <<>>, shown |-> "none", attemptsRemaining |-> Undefined]

\* a run that ended in showError(message)
ErrorRun(mode, source, message) ==
    [mode |-> mode, code |-> source, compileError |-> Str(message),
     hasResults |-> FALSE, results |-> <<>>, calls |-> <<>>,
     shown |-> "error", attemptsRemaining |-> Undefined]

\* a run that produced a result list; shown is what it put on screen
ResultRun(mode, source, run, shown, attemptsRemaining) ==
    [mode |-> mode, code |-> source, compileError |-> Null,
     hasResults |-> TRUE, results |-> run.results, calls |-> run.calls,
     shown |-> shown, attemptsRemaining |-> attemptsRemaining]

\* no call has returned or thrown
NoOutcome == [thrown |-> FALSE, value |-> Null]

\* no compile is on record
NoCompile == [pythonCode |-> <<>>, transpiled |-> NoOutcome, between |-> FALSE]

TranspilerIdle ==
    /\ pc = "idle"
    /\ pythonCode = <<>>
    /\ functionMatch = [found |-> FALSE]
    /\ lines = <<>>
    /\ minIndent = 0
    /\ indentStack = <<0>>
    /\ inDocstring = FALSE
    /\ docstringDelimiter = ""
    /\ body = <<>>
    /\ lineIndex = 0
    /\ pushCount = 0
    /\ closeCount = 0
    /\ transpiled = NoOutcome
    /\ remembered = NoCompile

Init ==
    /\ gameScene = "running"
    /\ challengeScene = "stopped"
    /\ gameOverScene = "stopped"
    /\ score = 0
    /\ isDiamondPaused = FALSE
    /\ isPaused = FALSE
    /\ distance = 0
    /\ lastDistanceScore = 0
    /\ lasers = [l \in Lasers |-> "none"]
    /\ laserHitCooldowns = [l \in Lasers |-> 0]
    /\ sinceHit = [l \in Lasers |-> LASER_HIT_COOLDOWN]
    /\ removedDiamonds = <<>>
    /\ problem = NoProblem
    /\ code = NoCode
    /\ failedAttempts = 0
    /\ closeScheduled = FALSE
    /\ lastRun = NoRun
    /\ TranspilerIdle

(***************************************************************************)
(* Game scene.                                                             *)
(***************************************************************************)
\* deductScore without Math.max(0, ...)
deductScore_NoClamp(points) == score - Quarters(points)

\* Game.deductScore(points)
deductScore(points) == Max(0, score - Quarters(points))

\* create without the reset of the failed-attempt counter
create_KeepsAttempts(data) ==
    /\ challengeScene' = "running"
    /\ problem' = data
    /\ failedAttempts' = failedAttempts
    /\ code' = data.starterCodePython
    /\ closeScheduled' = FALSE
    /\ lastRun' = NoRun

\* LeetCodeChallenge.create(data): the scene starts with data.problem
create(data) ==
    /\ challengeScene' = "running"
    /\ problem' = data
    /\ failedAttempts' = 0
    /\ code' = data.starterCodePython
    /\ closeScheduled' = FALSE
    /\ lastRun' = NoRun

\* Game.handleDiamondCollision without its early return
diamondCallback_NoEarlyReturn(state, challengeId) ==
    LET found == {c \in challenges : c.id = challengeId}
    IN  IF found = {}
        THEN [state EXCEPT !.isDiamondPaused = FALSE,
                           !.removed = Append(@, challengeId),
                           !.gameScene = "running"]
        ELSE [state EXCEPT !.isDiamondPaused = TRUE,
                           !.removed = Append(@, challengeId),
                           !.gameScene = "paused",
                           !.launched = <<convertChallengeToProblem(
                                              CHOOSE c \in found : TRUE)>>]

\* Game.handleDiamondCollision, one call of it: the overlap callback for a
\* diamond sprite that carries challengeId.  state holds what the calls of
\* one physics step have done so far.
diamondCallback(state, challengeId) ==
    IF state.isDiamondPaused THEN state
    ELSE LET found == {c \in challenges : c.id = challengeId}
         IN  IF found = {}
             THEN \* not found: the pause is undone at once
                  [state EXCEPT !.isDiamondPaused = FALSE,
                                !.removed = Append(@, challengeId),
                                !.gameScene = "running"]
             ELSE [state EXCEPT !.isDiamondPaused = TRUE,
                                !.removed = Append(@, challengeId),
                                !.gameScene = "paused",
                                !.launched = <<convertChallengeToProblem(
                                                   CHOOSE c \in found : TRUE)>>]

\* the overlap of the player with the diamonds group: the callback is called
\* for every overlapping diamond of the step, in order
RECURSIVE diamondOverlaps(_, _)
diamondOverlaps(state, sprites) ==
    IF sprites = <<>> THEN state
    ELSE diamondOverlaps(diamondCallback(state, Head(sprites)), Tail(sprites))

\* the diamonds one physics step can find overlapping the player
Overlapping ==
    UNION {[1..n -> DiamondChallengeIds] : n \in 1..MaxOverlaps}

\* Game.handleDiamondCollision: a physics step in which the player, not
\* sliding (the process callback of the overlap), overlaps the diamonds
\* sprites, each carrying its challengeId
handleDiamondCollision ==
    \E sprites \in Overlapping :
        /\ gameScene = "running"
        /\ ~isPaused
        /\ \E step \in {diamondOverlaps(
                             [isDiamondPaused |-> isDiamondPaused,
                              removed |-> <<>>, gameScene |-> gameScene,
                              launched |-> <<>>],
                             sprites)} :
               /\ isDiamondPaused' = step.isDiamondPaused
               /\ gameScene' = step.gameScene
               /\ removedDiamonds' = step.removed
               /\ IF step.launched = <<>>
                  THEN UNCHANGED <<challengeScene, problem, code, failedAttempts,
                                   closeScheduled, lastRun>>
                  ELSE create(step.launched[1])
        /\ UNCHANGED <<gameOverScene, score, isPaused, courseVars>>
    /\ UNCHANGED transpilerVars

\* the challenge scene launched, over the paused Game scene, with a problem
\* that carries hidden cases
launchWithHiddenCases ==
    \E data \in HiddenProblems :
        /\ gameScene = "running"
        /\ ~isDiamondPaused
        /\ ~isPaused
        /\ isDiamondPaused' = TRUE
        /\ gameScene' = "paused"
        /\ create(data)
        /\ removedDiamonds' = <<>>
        /\ UNCHANGED <<gameOverScene, score, isPaused, courseVars>>
    /\ UNCHANGED transpilerVars

\* GameOver's restart button: scene.start('Game') runs Game.create
restartGame ==
    /\ gameOverScene = "running"
    /\ gameOverScene' = "stopped"
    /\ gameScene' = "running"
    /\ score' = 0
    /\ distance' = 0
    /\ lastDistanceScore' = 0
    /\ lasers' = [l \in Lasers |-> "none"]
    /\ laserHitCooldowns' = [l \in Lasers |-> 0]
    /\ sinceHit' = [l \in Lasers |-> LASER_HIT_COOLDOWN]
    /\ isPaused' = FALSE
    /\ removedDiamonds' = <<>>
    /\ UNCHANGED <<challengeScene, isDiamondPaused, problem, code, failedAttempts,
                   closeScheduled, lastRun>>
    /\ UNCHANGED transpilerVars

(***************************************************************************)
(* Challenge scene.                                                        *)
(***************************************************************************)
\* the player edits the text in the editor
editCode ==
    \E text \in EditedSources \cup {problem.starterCodePython} :
        /\ challengeScene = "running"
        /\ code' = text
        /\ UNCHANGED <<gameScene, challengeScene, gameOverScene, score,
                       isDiamondPaused, problem, failedAttempts, closeScheduled,
                       lastRun>>
    /\ removedDiamonds' = <<>>
    /\ UNCHANGED <<isPaused, courseVars>>
    /\ UNCHANGED transpilerVars

\* LeetCodeChallenge.closeChallenge: dispose the editor, resume Game, stop
\* this scene; the shutdown event clears the scene's timers and runs Game's
\* listener
closeChallenge ==
    /\ code' = NoCode
    /\ gameScene' = "running"
    /\ challengeScene' = "stopped"
    /\ isDiamondPaused' = FALSE
    /\ closeScheduled' = FALSE
    /\ UNCHANGED gameOverScene

\* LeetCodeChallenge.triggerGameOver: dispose the editor, stop Game and this
\* scene, start GameOver
triggerGameOver ==
    /\ code' = NoCode
    /\ gameScene' = "stopped"
    /\ challengeScene' = "stopped"
    /\ gameOverScene' = "running"
    /\ isDiamondPaused' = FALSE
    /\ closeScheduled' = FALSE

\* the times measured for n cases
Times(n) == [1..n -> 0..MaxExecTime]

\* LeetCodeChallenge.runTests (the RUN TESTS button)
runTests ==
    /\ challengeScene = "running"
    /\ LET compiled == evaluateUserCode(code)
       IN  IF compiled.thrown
           THEN lastRun' = ErrorRun("trial", code, ErrorText(compiled))
           ELSE \E times \in Times(Len(visibleTestsOf(problem))) :
                    lastRun' = ResultRun("trial", code,
                                   runTestsMap(compiled.value, visibleTestsOf(problem),
                                               problem, times),
                                   "results", Undefined)
    /\ UNCHANGED <<gameScene, challengeScene, gameOverScene, score, isDiamondPaused,
                   problem, code, failedAttempts, closeScheduled>>
    /\ removedDiamonds' = <<>>
    /\ UNCHANGED <<isPaused, courseVars>>
    /\ UNCHANGED transpilerVars

\* submitSolution that counts a compile error as a failed attempt
submitSolution_CountsCompileError ==
    /\ challengeScene = "running"
    /\ LET compiled == evaluateUserCode(code)
       IN  IF compiled.thrown
           THEN /\ failedAttempts' = failedAttempts + 1
                /\ IF outOfAttempts(failedAttempts')
                   THEN /\ triggerGameOver
                        /\ lastRun' = ErrorRun("final", code, ErrorText(compiled))
                   ELSE /\ lastRun' = ErrorRun("final", code, ErrorText(compiled))
                        /\ UNCHANGED <<gameScene, challengeScene, gameOverScene,
                                       code, isDiamondPaused, closeScheduled>>
           ELSE \E times \in Times(Len(allTestsOf(problem))) :
                    LET run == submitSolutionMap(compiled.value, allTestsOf(problem),
                                                 problem, times)
                    IN  IF allPassed(run.results)
                        THEN /\ lastRun' = ResultRun("final", code, run, "success",
                                                     Undefined)
                             /\ closeScheduled' = TRUE
                             /\ UNCHANGED <<gameScene, challengeScene, gameOverScene,
                                            code, isDiamondPaused, failedAttempts>>
                        ELSE /\ failedAttempts' = failedAttempts + 1
                             /\ IF outOfAttempts(failedAttempts')
                                THEN /\ triggerGameOver
                                     /\ lastRun' = ResultRun("final", code, run,
                                                             "gameOver", Undefined)
                                ELSE /\ lastRun' =
                                            ResultRun("final", code, run, "results",
                                                Num(MAX_ATTEMPTS - failedAttempts'))
                                     /\ UNCHANGED <<gameScene, challengeScene,
                                                    gameOverScene, code,
                                                    isDiamondPaused, closeScheduled>>
    /\ UNCHANGED <<score, problem>>
    /\ removedDiamonds' = <<>>
    /\ UNCHANGED <<isPaused, courseVars>>
    /\ UNCHANGED transpilerVars

\* LeetCodeChallenge.submitSolution (the SUBMIT button)
submitSolution ==
    /\ challengeScene = "running"
    /\ LET compiled == evaluateUserCode(code)
       IN  IF compiled.thrown
           THEN /\ lastRun' = ErrorRun("final", code, ErrorText(compiled))
                /\ UNCHANGED <<gameScene, challengeScene, gameOverScene, code,
                               isDiamondPaused, failedAttempts, closeScheduled>>
           ELSE \E times \in Times(Len(allTestsOf(problem))) :
                    LET run == submitSolutionMap(compiled.value, allTestsOf(problem),
                                                 problem, times)
                    IN  IF allPassed(run.results)
                        THEN /\ lastRun' = ResultRun("final", code, run, "success",
                                                     Undefined)
                             /\ closeScheduled' = TRUE
                             /\ UNCHANGED <<gameScene, challengeScene, gameOverScene,
                                            code, isDiamondPaused, failedAttempts>>
                        ELSE /\ failedAttempts' = failedAttempts + 1
                             /\ IF outOfAttempts(failedAttempts')
                                THEN /\ triggerGameOver
                                     /\ lastRun' = ResultRun("final", code, run,
                                                             "gameOver", Undefined)
                                ELSE /\ lastRun' =
                                            ResultRun("final", code, run, "results",
                                                Num(MAX_ATTEMPTS - failedAttempts'))
                                     /\ UNCHANGED <<gameScene, challengeScene,
                                                    gameOverScene, code,
                                                    isDiamondPaused, closeScheduled>>
    /\ UNCHANGED <<score, problem>>
    /\ removedDiamonds' = <<>>
    /\ UNCHANGED <<isPaused, courseVars>>
    /\ UNCHANGED transpilerVars

\* the delayedCall(2000, ...) of a successful final run fires
delayedClose ==
    /\ challengeScene = "running"
    /\ closeScheduled
    /\ closeChallenge
    /\ UNCHANGED <<score, problem, failedAttempts, lastRun>>
    /\ removedDiamonds' = <<>>
    /\ UNCHANGED <<isPaused, courseVars>>
    /\ UNCHANGED transpilerVars

\* skipProblem without the deduction
skipProblem_NoPenalty ==
    \E confirmSkip \in BOOLEAN :
        /\ challengeScene = "running"
        /\ IF confirmSkip
           THEN /\ score' = score
                /\ closeChallenge
           ELSE UNCHANGED <<gameScene, challengeScene, gameOverScene, score,
                            code, isDiamondPaused, closeScheduled>>
        /\ UNCHANGED <<problem, failedAttempts, lastRun>>
    /\ removedDiamonds' = <<>>
    /\ UNCHANGED <<isPaused, courseVars>>
    /\ UNCHANGED transpilerVars

\* LeetCodeChallenge.skipProblem (the SKIP button); confirmSkip is the answer
\* to the confirm dialog
skipProblem ==
    \E confirmSkip \in BOOLEAN :
        /\ challengeScene = "running"
        /\ IF confirmSkip
           THEN /\ score' = deductScore(SKIP_PENALTY)
                /\ closeChallenge
           ELSE UNCHANGED <<gameScene, challengeScene, gameOverScene, score,
                            code, isDiamondPaused, closeScheduled>>
        /\ UNCHANGED <<problem, failedAttempts, lastRun>>
    /\ removedDiamonds' = <<>>
    /\ UNCHANGED <<isPaused, courseVars>>
    /\ UNCHANGED transpilerVars

(***************************************************************************)
(* The run: distance, score, lasers and the pause key.  The classes Laser  *)
(* and RunnerPlayer are not part of the source at hand: what their methods *)
(* getIsActive, isOffScreen and isSlidingState return is an input of the   *)
(* step that calls them.                                                   *)
(***************************************************************************)
\* Math.floor(this.distance)
floorDistance(d) == d \div 10

\* Game.updateLaserHitCooldowns(delta)
updateLaserHitCooldowns(delta) ==
    [l \in Lasers |->
        LET newCooldown == laserHitCooldowns[l] - delta
        IN  IF newCooldown <= 0 THEN 0 ELSE newCooldown]

\* the lasers after updatelaserSpawning and updateLasers: spawnLaser may have
\* pushed one new laser, every laser has been updated, and those off screen
\* are gone.  A new laser is a new key of the cooldown map.
lasersAfterUpdate ==
    {after \in [Lasers -> {"none", "warning", "active"}] :
        /\ \A l \in Lasers :
               (lasers[l] = "none" /\ after[l] # "none")
                   => (laserHitCooldowns[l] = 0
                         /\ \A m \in Lasers : m < l => lasers[m] # "none")
        /\ Cardinality({l \in Lasers : lasers[l] = "none" /\ after[l] # "none"})
               <= 1}

\* Game.update(_time, delta)
update ==
    \E delta \in Deltas :
        /\ gameScene = "running"
        /\ distance <= 10 * MaxDistance
        /\ IF isPaused
           THEN UNCHANGED <<score, courseVars>>
           ELSE /\ distance' = distance + (scrollSpeed * delta) \div 100
                /\ LET distanceScore == floorDistance(distance')
                       distanceIncrease == distanceScore - lastDistanceScore
                   IN  IF distanceIncrease > 0
                       THEN /\ score' = score + distanceIncrease
                            /\ lastDistanceScore' = distanceScore
                       ELSE UNCHANGED <<score, lastDistanceScore>>
                /\ lasers' \in lasersAfterUpdate
                /\ laserHitCooldowns' = updateLaserHitCooldowns(delta)
                /\ sinceHit' = [l \in Lasers |->
                                   IF sinceHit[l] + delta >= LASER_HIT_COOLDOWN
                                   THEN LASER_HIT_COOLDOWN
                                   ELSE sinceHit[l] + delta]
        /\ removedDiamonds' = <<>>
        /\ UNCHANGED <<gameScene, challengeScene, gameOverScene, isDiamondPaused,
                       problem, code, failedAttempts, closeScheduled, lastRun,
                       isPaused>>
    /\ UNCHANGED transpilerVars

\* the process callback of the laser overlap
laserProcessCallback(laser, isSliding) == lasers[laser] = "active" /\ ~isSliding

\* handleLaserCollision without the cooldown test
handleLaserCollision_NoCooldown ==
    \E laser \in Lasers, isSliding \in BOOLEAN :
        /\ gameScene = "running"
        /\ ~isPaused
        /\ lasers[laser] # "none"
        /\ IF \/ ~laserProcessCallback(laser, isSliding)
              \/ lasers[laser] # "active"
           THEN UNCHANGED <<score, laserHitCooldowns, sinceHit>>
           ELSE /\ laserHitCooldowns' =
                       [laserHitCooldowns EXCEPT ![laser] = LASER_HIT_COOLDOWN]
                /\ sinceHit' = [sinceHit EXCEPT ![laser] = 0]
                /\ score' = Max(0, Quarters(score \div Quarters(2)))
        /\ removedDiamonds' = <<>>
        /\ UNCHANGED <<gameScene, challengeScene, gameOverScene, isDiamondPaused,
                       problem, code, failedAttempts, closeScheduled, lastRun,
                       isPaused, distance, lastDistanceScore, lasers>>
    /\ UNCHANGED transpilerVars

\* Game.handleLaserCollision: a physics step in which the player overlaps
\* the sprite of laser, through the process callback of the overlap
handleLaserCollision ==
    \E laser \in Lasers, isSliding \in BOOLEAN :
        /\ gameScene = "running"
        /\ ~isPaused
        /\ lasers[laser] # "none"
        /\ IF \/ ~laserProcessCallback(laser, isSliding)
              \/ lasers[laser] # "active"
              \/ laserHitCooldowns[laser] > 0
           THEN UNCHANGED <<score, laserHitCooldowns, sinceHit>>
           ELSE /\ laserHitCooldowns' =
                       [laserHitCooldowns EXCEPT ![laser] = LASER_HIT_COOLDOWN]
                /\ sinceHit' = [sinceHit EXCEPT ![laser] = 0]
                /\ score' = Max(0, Quarters(score \div Quarters(2)))
        /\ removedDiamonds' = <<>>
        /\ UNCHANGED <<gameScene, challengeScene, gameOverScene, isDiamondPaused,
                       problem, code, failedAttempts, closeScheduled, lastRun,
                       isPaused, distance, lastDistanceScore, lasers>>
    /\ UNCHANGED transpilerVars

\* the keydown-ESC listener of setupPauseControls, with togglePause
keydownESC ==
    /\ gameScene # "stopped"
    /\ IF isDiamondPaused
       THEN UNCHANGED isPaused
       ELSE isPaused' = ~isPaused
    /\ removedDiamonds' = <<>>
    /\ UNCHANGED <<gameScene, challengeScene, gameOverScene, score,
                   isDiamondPaused, problem, code, failedAttempts, closeScheduled,
                   lastRun, courseVars>>
    /\ UNCHANGED transpilerVars

Next ==
    \/ handleDiamondCollision
    \/ launchWithHiddenCases
    \/ keydownESC
    \/ restartGame
    \/ editCode
    \/ runTests
    \/ submitSolution
    \/ delayedClose
    \/ skipProblem

Spec == Init /\ [][Next]_vars

\* the run with its lasers, and the challenges that are left by the skip
GameNext ==
    \/ update
    \/ handleLaserCollision
    \/ keydownESC
    \/ handleDiamondCollision
    \/ skipProblem

GameSpec == Init /\ [][GameNext]_vars

(***************************************************************************)
(* transpilePythonToJS, step by step: the call up to the loop              *)
(* (transpileStart), one iteration of the loop over the body lines         *)
(* (transpileLine), and what follows the loop (transpileFinish).           *)
(***************************************************************************)
\* the editor's text (editor.getValue()) before the first call
editSource ==
    /\ pc = "idle"
    /\ \E text \in EditedTexts(pythonCode) : pythonCode' = text
    /\ UNCHANGED <<pc, functionMatch, lines, minIndent, indentStack, inDocstring,
                   docstringDelimiter, body, lineIndex, pushCount, closeCount,
                   transpiled, remembered>>
    /\ UNCHANGED gameVars

\* the call that ends now is put on record if it is the first one of a
\* catalogue source; the first call is of the editor's text, the later ones
\* are of catalogue sources; between tells that another text was compiled
\* since
Remember(source, outcome) ==
    remembered' = IF remembered = NoCompile
                  THEN IF source \in Catalogue
                       THEN [pythonCode |-> source, transpiled |-> outcome,
                             between |-> FALSE]
                       ELSE remembered
                  ELSE [remembered EXCEPT
                            !.between = @ \/ source # remembered.pythonCode]

\* a call whose loop state is left over from the call before
transpileStart_KeepsDocstringState ==
    /\ pc \in {"idle", "done"}
    /\ pythonCode # <<>>
    /\ \E source \in (IF pc = "idle" THEN {pythonCode} ELSE Catalogue) :
        /\ pythonCode' = source
        /\ functionMatch' = functionMatchOf(source)
        /\ pushCount' = 0
        /\ closeCount' = 0
        /\ IF ~functionMatch'.found
           THEN /\ transpiled' = Throw("Python transpilation error: "
                                       \o "Could not find Python function definition")
                /\ pc' = "done"
                /\ Remember(source, transpiled')
                /\ UNCHANGED <<lines, minIndent, indentStack, inDocstring,
                               docstringDelimiter, body, lineIndex>>
           ELSE /\ lines' = slicedLines(source)
                /\ minIndent' = minIndentOf(lines')
                /\ indentStack' = <<0>>
                /\ body' = <<>>
                /\ lineIndex' = 0
                /\ transpiled' = NoOutcome
                /\ pc' = "loop"
                /\ UNCHANGED <<inDocstring, docstringDelimiter, remembered>>
    /\ UNCHANGED gameVars

\* transpilePythonToJS(pythonCode), from the call to the start of the loop
transpileStart ==
    /\ pc \in {"idle", "done"}
    /\ pythonCode # <<>>
    /\ \E source \in (IF pc = "idle" THEN {pythonCode} ELSE Catalogue) :
        /\ pythonCode' = source
        /\ functionMatch' = functionMatchOf(source)
        /\ pushCount' = 0
        /\ closeCount' = 0
        /\ IF ~functionMatch'.found
           THEN /\ transpiled' = Throw("Python transpilation error: "
                                       \o "Could not find Python function definition")
                /\ pc' = "done"
                /\ Remember(source, transpiled')
                /\ UNCHANGED <<lines, minIndent, indentStack, inDocstring,
                               docstringDelimiter, body, lineIndex>>
           ELSE /\ lines' = slicedLines(source)
                /\ minIndent' = minIndentOf(lines')
                /\ indentStack' = <<0>>
                /\ inDocstring' = FALSE
                /\ docstringDelimiter' = ""
                /\ body' = <<>>
                /\ lineIndex' = 0
                /\ transpiled' = NoOutcome
                /\ pc' = "loop"
                /\ UNCHANGED remembered
    /\ UNCHANGED gameVars

\* one iteration of  for (let i = 0; i < lines.length; i++)
transpileLine ==
    /\ pc = "loop"
    /\ lineIndex < Len(lines)
    /\ lineIndex' = lineIndex + 1
    /\ LET line == lines[lineIndex + 1]
       IN  IF lineKind(line, inDocstring) = "skip"
           THEN /\ inDocstring' = inDocstringAfter(line, inDocstring, docstringDelimiter)
                /\ docstringDelimiter' =
                       docstringDelimiterAfter(line, inDocstring, docstringDelimiter)
                /\ UNCHANGED <<indentStack, body, pushCount, closeCount>>
           ELSE LET currentIndent == line.indent
                    dedented == dedentedOf(line, minIndent)
                    relativeIndent == currentIndent - minIndent
                    popped == popTo(indentStack, relativeIndent)
                    translated == translateLine(dedented)
                IN  /\ indentStack' = IF translated.push
                                      THEN Append(popped, relativeIndent + 4)
                                      ELSE popped
                    /\ body' = body
                               \o closingBraces(Len(indentStack), Len(popped))
                               \o <<translated.jsLine>>
                    /\ pushCount' = pushCount + (IF translated.push THEN 1 ELSE 0)
                    /\ closeCount' = closeCount
                           + Len(closingBraces(Len(indentStack), Len(popped)))
                    /\ UNCHANGED <<inDocstring, docstringDelimiter>>
    /\ UNCHANGED <<pc, pythonCode, functionMatch, lines, minIndent, transpiled,
                   remembered>>
    /\ UNCHANGED gameVars

\* an end of the call that leaves the open blocks open
transpileFinish_NoFlush ==
    /\ pc = "loop"
    /\ lineIndex = Len(lines)
    /\ indentStack' = indentStack
    /\ closeCount' = closeCount
    /\ LET closed == body
       IN  body' = IF isEmptyBody(closed)
                   THEN <<Line(0, <<G("return"), W("undefined"), G(";")>>)>>
                   ELSE closed
    /\ transpiled' =
          IF syntaxErrorOf(body') # ""
          THEN Throw("Python transpilation error: " \o syntaxErrorOf(body'))
          ELSE Return([functionName |-> functionMatch.functionName,
                       params |-> functionMatch.params,
                       body |-> body'])
    /\ pc' = "done"
    /\ Remember(pythonCode, transpiled')
    /\ UNCHANGED <<pythonCode, functionMatch, lines, minIndent, inDocstring,
                   docstringDelimiter, lineIndex, pushCount>>
    /\ UNCHANGED gameVars

\* after the loop: close the open blocks, give an empty body its
\* 'return undefined;', and make the function with new Function(jsCode)
transpileFinish ==
    /\ pc = "loop"
    /\ lineIndex = Len(lines)
    /\ indentStack' = <<0>>
    /\ closeCount' = closeCount + Len(closingBraces(Len(indentStack), 1))
    /\ LET closed == body \o closingBraces(Len(indentStack), 1)
       IN  body' = IF isEmptyBody(closed)
                   THEN <<Line(0, <<G("return"), W("undefined"), G(";")>>)>>
                   ELSE closed
    /\ transpiled' =
          IF syntaxErrorOf(body') # ""
          THEN Throw("Python transpilation error: " \o syntaxErrorOf(body'))
          ELSE Return([functionName |-> functionMatch.functionName,
                       params |-> functionMatch.params,
                       body |-> body'])
    /\ pc' = "done"
    /\ Remember(pythonCode, transpiled')
    /\ UNCHANGED <<pythonCode, functionMatch, lines, minIndent, inDocstring,
                   docstringDelimiter, lineIndex, pushCount>>
    /\ UNCHANGED gameVars

TranspilerNext ==
    \/ editSource
    \/ transpileStart
    \/ transpileLine
    \/ transpileFinish

TranspilerSpec == Init /\ [][TranspilerNext]_vars

(***************************************************************************)
(* Properties.                                                             *)
(***************************************************************************)
\* the case list the latest run was given
CasesOfRun ==
    IF lastRun.mode = "trial" THEN problem.testCases
    ELSE problem.testCases \o problem.hiddenTestCases

\* the latest run compiled its source into a function
RunCompiled == lastRun.mode # "none" /\ ~evaluateUserCode(lastRun.code).thrown

\* the function the latest run compiled
RunFunction == evaluateUserCode(lastRun.code).value

\* the invocation of call i of the latest run throws
CallThrows(i) == Invoke(RunFunction, lastRun.calls[i]).thrown

\* C1: a run of a compiled function over n cases (trial or final, n >= 0)
\* produces exactly n results, and result i echoes the input and the expected
\* value of case i.
C1_OneResultPerCaseInOrder ==
    RunCompiled =>
        /\ lastRun.hasResults
        /\ Len(lastRun.results) = Len(CasesOfRun)
        /\ \A i \in 1..Len(CasesOfRun) :
               /\ lastRun.results[i].input = CasesOfRun[i].input
               /\ lastRun.results[i].expected = CasesOfRun[i].expected

\* a final run over four cases with distinct inputs, and one that fails
C1_Witness ==
    /\ lastRun.mode = "final"
    /\ lastRun.hasResults
    /\ Len(lastRun.results) = 4
    /\ \E i \in 1..4 : ~lastRun.results[i].passed
    /\ \A i, j \in 1..4 : i # j => lastRun.results[i].input # lastRun.results[j].input

\* C2: when the invocation of case i throws, the exception is not propagated
\* (no error is shown instead of results), case i has a result, and every
\* case j > i is still invoked and has its own result.
C2_ThrowDoesNotStopTheRun ==
    RunCompiled =>
        \A i \in 1..Len(lastRun.calls) :
            CallThrows(i) =>
                /\ lastRun.shown # "error"
                /\ lastRun.compileError = Null
                /\ lastRun.hasResults
                /\ \A j \in i..Len(CasesOfRun) :
                       /\ j <= Len(lastRun.calls)
                       /\ j <= Len(lastRun.results)
                       /\ lastRun.results[j].input = CasesOfRun[j].input

\* the first and the third case throw, the second in between returns
C2_Witness ==
    /\ RunCompiled
    /\ Len(lastRun.calls) = 3
    /\ CallThrows(1)
    /\ ~CallThrows(2)
    /\ CallThrows(3)
    /\ lastRun.results[2].error = Null

\* C3: a case is invoked with its input spread as positional arguments
\* exactly when the input is a sequence whose length equals the parameter
\* count of the function under test; in every other case the input is the
\* single argument.
C3_SpreadIffLengthIsParameterCount ==
    RunCompiled =>
        \A i \in 1..Len(lastRun.calls) :
            LET input == CasesOfRun[i].input
                parameterCount == Len(RunFunction.params)
            IN  IF IsArray(input) /\ Len(input.v) = parameterCount
                THEN lastRun.calls[i] = input.v
                ELSE lastRun.calls[i] = <<input>>

\* C4: for the problem made from the cases [1,2,3,1] -> true and
\* [1,2,3] -> false and a duplicate detector with one sequence parameter,
\* both cases are invoked with the whole sequence as the argument and both
\* results have passed = true.
C4_DuplicateDetectorPassesBothCases ==
    ( /\ problem = convertChallengeToProblem(ChDuplicate)
      /\ lastRun.mode # "none"
      /\ lastRun.code = SrcDuplicate )
    => /\ lastRun.hasResults
       /\ \A i \in 1..2 :
              /\ lastRun.calls[i] = <<problem.testCases[i].input>>
              /\ lastRun.results[i].passed

\* C5: a run has exactly one of two outcomes: a compile error is reported,
\* no case was invoked and there is no result list; or there is a full
\* result list (one result per case, each case invoked) and no compile error.
C5_ErrorOrFullResultList ==
    lastRun.mode # "none" =>
        LET compileErrorOutcome ==
                /\ lastRun.compileError # Null
                /\ lastRun.shown = "error"
                /\ lastRun.calls = <<>>
                /\ ~lastRun.hasResults
                /\ lastRun.results = <<>>
            resultListOutcome ==
                /\ lastRun.compileError = Null
                /\ lastRun.shown # "error"
                /\ lastRun.hasResults
                /\ Len(lastRun.results) = Len(CasesOfRun)
                /\ Len(lastRun.calls) = Len(CasesOfRun)
        IN  compileErrorOutcome # resultListOutcome

\* a compile error reported for a problem that has cases to run
C5_Witness ==
    /\ lastRun.mode = "final"
    /\ lastRun.shown = "error"
    /\ lastRun.compileError # Null
    /\ Len(CasesOfRun) >= 2

\* C6 as stated: a case whose invocation throws has passed = false, actual
\* null, error = the thrown error's message and executionTime 0; a case whose
\* invocation returns has error null and actual = the returned value.
C6_ThrownOrReturnedResult ==
    RunCompiled =>
        \A i \in 1..Len(lastRun.results) :
            LET call == Invoke(RunFunction, lastRun.calls[i])
                r == lastRun.results[i]
            IN  IF call.thrown
                THEN /\ ~r.passed
                     /\ r.actual = Null
                     /\ r.error = Str(ErrorText(call))
                     /\ r.executionTime = 0
                ELSE /\ r.error = Null
                     /\ r.actual = call.value

\* C6 amended: the same, except that a returned value whose serialization
\* throws is reported like a throw, with the serialization error's message.
C6_ThrownOrSerializableResult ==
    RunCompiled =>
        \A i \in 1..Len(lastRun.results) :
            LET call == Invoke(RunFunction, lastRun.calls[i])
                r == lastRun.results[i]
            IN  IF call.thrown
                THEN /\ ~r.passed
                     /\ r.actual = Null
                     /\ r.error = Str(ErrorText(call))
                     /\ r.executionTime = 0
                ELSE IF JSONstringify(call.value).thrown
                THEN /\ ~r.passed
                     /\ r.actual = Null
                     /\ r.error = Str(ErrorText(JSONstringify(call.value)))
                     /\ r.executionTime = 0
                ELSE /\ r.error = Null
                     /\ r.actual = call.value

\* one run with a case that returns, timed above 0, and a case that throws
C6_Witness ==
    /\ RunCompiled
    /\ \E i, j \in 1..Len(lastRun.results) :
           /\ CallThrows(i)
           /\ lastRun.results[i].error # Null
           /\ ~CallThrows(j)
           /\ lastRun.results[j].error = Null
           /\ lastRun.results[j].executionTime > 0

\* a step in which a final run produced a result list
FinalRunStep ==
    /\ lastRun' # lastRun
    /\ lastRun'.mode = "final"
    /\ lastRun'.hasResults

\* a step in which a final run produced a result list with a failed case
FailedFinalRunStep ==
    /\ FinalRunStep
    /\ \E i \in 1..Len(lastRun'.results) : ~lastRun'.results[i].passed

\* a step in which a trial run took place
TrialRunStep ==
    /\ lastRun' # lastRun
    /\ lastRun'.mode = "trial"

\* C7: a final run runs the visible cases followed by the hidden ones; it
\* signals success, leaving the failed-attempt counter unchanged, exactly
\* when every result passed, and otherwise adds exactly 1 to the counter.
C7_SuccessIffAllPassedElseOneAttempt ==
    [][FinalRunStep =>
          /\ Len(lastRun'.results)
                 = Len(problem.testCases) + Len(problem.hiddenTestCases)
          /\ IF \A i \in 1..Len(lastRun'.results) : lastRun'.results[i].passed
             THEN /\ lastRun'.shown = "success"
                  /\ closeScheduled'
                  /\ failedAttempts' = failedAttempts
             ELSE /\ lastRun'.shown # "success"
                  /\ failedAttempts' = failedAttempts + 1]_vars

\* a failed final run with two failed cases counted as one attempt, after
\* a hidden case failed
C7_Witness ==
    /\ lastRun.mode = "final"
    /\ lastRun.shown = "results"
    /\ failedAttempts = 1
    /\ problem.hiddenTestCases # <<>>
    /\ Cardinality({i \in 1..Len(lastRun.results) : ~lastRun.results[i].passed}) >= 2
    /\ \E i \in 1..Len(lastRun.results) : lastRun.results[i].passed

\* the GameOver scene is started
GameOverEntered == gameOverScene = "stopped" /\ gameOverScene' = "running"

\* C8: game over (Game and challenge scene stopped, GameOver started) is
\* entered exactly at the failed final run that brings the counter to 3; the
\* failed final runs that bring it to 1 or 2 surface the results with
\* attemptsRemaining = 3 - counter and leave the scenes as they are; no other
\* step (trial run, skip, compile error) enters game over.
C8_GameOverExactlyAtThirdFailure ==
    [][/\ GameOverEntered
            <=> (FailedFinalRunStep /\ failedAttempts = 2 /\ failedAttempts' = 3)
       /\ GameOverEntered
            => (gameScene' = "stopped" /\ challengeScene' = "stopped"
                  /\ lastRun'.shown = "gameOver")
       /\ FailedFinalRunStep => failedAttempts' \in {1, 2, 3}
       /\ (FailedFinalRunStep /\ failedAttempts' \in {1, 2})
            => /\ lastRun'.shown = "results"
               /\ lastRun'.attemptsRemaining = Num(3 - failedAttempts')
               /\ UNCHANGED <<gameScene, challengeScene, gameOverScene>>]_vars

\* game over reached by the third failed final run
C8_Witness ==
    /\ gameOverScene = "running"
    /\ gameScene = "stopped"
    /\ challengeScene = "stopped"
    /\ failedAttempts = 3
    /\ lastRun.shown = "gameOver"

\* C9: a trial run runs the visible cases only, surfaces the full result
\* list whether or not all cases pass, and leaves the failed-attempt counter
\* and the scenes unchanged.
C9_TrialRunVisibleCasesNoEffect ==
    [][TrialRunStep =>
          /\ UNCHANGED <<failedAttempts, gameScene, challengeScene, gameOverScene,
                         isDiamondPaused, closeScheduled, score>>
          /\ lastRun'.hasResults =>
                /\ lastRun'.shown = "results"
                /\ Len(lastRun'.results) = Len(problem.testCases)
                /\ Len(lastRun'.calls) = Len(problem.testCases)
                /\ \A i \in 1..Len(problem.testCases) :
                       /\ lastRun'.results[i].input = problem.testCases[i].input
                       /\ lastRun'.results[i].expected
                              = problem.testCases[i].expected]_vars

\* a trial run with a failed case, on a problem with hidden cases, after a
\* failed final run
C9_Witness ==
    /\ lastRun.mode = "trial"
    /\ lastRun.shown = "results"
    /\ problem.hiddenTestCases # <<>>
    /\ \E i \in 1..Len(lastRun.results) : ~lastRun.results[i].passed
    /\ failedAttempts = 2
    /\ challengeScene = "running"

\* a result without its timing
Untimed(r) ==
    [passed |-> r.passed, input |-> r.input, expected |-> r.expected,
     actual |-> r.actual, error |-> r.error]

\* C10: for the same source and problem the final run's results, restricted
\* to the first |visible| entries, equal the trial run's results in passed,
\* input, expected, actual and error; and the final run's cases are the
\* visible cases followed by the hidden ones.
C10_TrialAndFinalAgree ==
    RunCompiled =>
        LET visible == problem.testCases
            all == problem.testCases \o problem.hiddenTestCases
        IN  /\ lastRun.mode = "final" =>
                /\ Len(lastRun.results) = Len(all)
                /\ \A i \in 1..Len(all) :
                       /\ lastRun.results[i].input = all[i].input
                       /\ lastRun.results[i].expected = all[i].expected
                /\ \A times \in Times(Len(visible)) :
                       LET trial == runTestsMap(RunFunction, visible, problem, times)
                       IN  \A i \in 1..Len(visible) :
                               Untimed(trial.results[i]) = Untimed(lastRun.results[i])
            /\ lastRun.mode = "trial" =>
                /\ Len(lastRun.results) = Len(visible)
                /\ \A times \in Times(Len(all)) :
                       LET final == submitSolutionMap(RunFunction, all, problem, times)
                       IN  \A i \in 1..Len(visible) :
                               Untimed(final.results[i]) = Untimed(lastRun.results[i])

\* a final run over visible and hidden cases: a spread case that passed, a
\* case that failed
C10_Witness ==
    /\ lastRun.mode = "final"
    /\ lastRun.hasResults
    /\ problem.hiddenTestCases # <<>>
    /\ lastRun.calls[1] = problem.testCases[1].input.v
    /\ lastRun.results[1].passed
    /\ \E i \in 1..Len(lastRun.results) : ~lastRun.results[i].passed

(***************************************************************************)
(* Compile errors.                                                         *)
(***************************************************************************)
\* the latest run was given a source text without a def header
RunWithoutHeader == lastRun.mode # "none" /\ ~lastRun.code.def

\* C11 as stated: a run on a source text with no header
\* def <name>(<params>): reports a compile error whose message is
\* "Could not find function definition", and runs no test case.
C11_NoHeaderMessageAsStated ==
    RunWithoutHeader =>
        /\ lastRun.compileError = Str("Could not find function definition")
        /\ lastRun.calls = <<>>

\* C11: a run on a source text with no header def <name>(<params>): reports
\* the compile error "Compilation error: Python transpilation error: Could
\* not find Python function definition", shows it as an error, and runs no
\* test case and produces no result.
C11_NoHeaderIsCompileError ==
    RunWithoutHeader =>
        /\ lastRun.compileError =
               Str("Compilation error: Python transpilation error: "
                   \o "Could not find Python function definition")
        /\ lastRun.shown = "error"
        /\ lastRun.calls = <<>>
        /\ ~lastRun.hasResults

\* a final run on a headerless text, for a problem with two cases
C11_Witness ==
    /\ RunWithoutHeader
    /\ lastRun.mode = "final"
    /\ lastRun.code = SrcNoDef
    /\ Len(CasesOfRun) = 2
    /\ lastRun.shown = "error"

(***************************************************************************)
(* The transpiler.                                                         *)
(***************************************************************************)
\* the characters of each emitted line, without its leading whitespace
Texts(jsLines) == [k \in 1..Len(jsLines) |-> TextOf(jsLines[k].text)]

\* the latest call was given this text and has ended
Compiled(source) == pc = "done" /\ pythonCode = source

\* the emitted lines that are a lone closing brace
ClosingLines(jsLines) == {k \in 1..Len(jsLines) : jsLines[k].text = <<G("}")>>}

\* the emitted lines that open a block
OpeningLines(jsLines) ==
    {k \in 1..Len(jsLines) :
        jsLines[k].text # <<>> /\ Last(jsLines[k].text).s = "{"}

\* the opening line a closing line closes: the latest opening line before it
\* that no closing line in between has closed (0 if there is none)
RECURSIVE OpenBefore(_, _)
OpenBefore(jsLines, k) ==
    IF k = 0 THEN <<>>
    ELSE LET before == OpenBefore(jsLines, k - 1)
         IN  IF k \in OpeningLines(jsLines) THEN Append(before, k)
             ELSE IF k \in ClosingLines(jsLines) /\ before # <<>> THEN Front(before)
             ELSE before

BracePairs(jsLines) ==
    {<<IF OpenBefore(jsLines, k - 1) = <<>> THEN 0
       ELSE Last(OpenBefore(jsLines, k - 1)), k>> : k \in ClosingLines(jsLines)}

\* C12: the body  if x > 0: / for i in x: / if i > 1: / return i  (each
\* header one level deeper) compiles, and its emitted body has exactly three
\* closing braces, which close the inner if, then the for, then the outer if.
C12_NestedBlocksCloseInOrder ==
    Compiled(SourceText.Nested) =>
        /\ ~transpiled.thrown
        /\ transpiled.value.body = body
        /\ Texts(body) = <<"if (x > 0) {", "for (const i of x) {", "if (i > 1) {",
                           "return i", "}", "}", "}">>
        /\ Cardinality(ClosingLines(body)) = 3
        /\ BracePairs(body) = {<<3, 5>>, <<2, 6>>, <<1, 7>>}

\* the nested source has been compiled into a function
C12_Witness ==
    /\ Compiled(SourceText.Nested)
    /\ ~transpiled.thrown
    /\ Len(body) = 7

\* the loop translates its next line in this step
TranslatingStep ==
    /\ pc = "loop"
    /\ lineIndex < Len(lines)
    /\ lineIndex' = lineIndex + 1
    /\ lineKind(lines[lineIndex + 1], inDocstring) = "translate"

\* the line the loop is at, and what the step emits for it
CurrentLine == lines[lineIndex + 1]
EmittedLine == body'[Len(body')]

\* the text has  <collection>.has(<item>)
HasCall(text, collection, item) ==
    \E k \in 1..(Len(text) - 5) :
        /\ text[k].s = collection
        /\ SubSeq(text, k + 1, k + 5) = <<G("."), G("has"), G("("), G(item), G(")")>>

\* C13: a translated line that is no for-loop header and has a membership
\* test <item> in <collection> is emitted with <collection>.has(<item>)
\* (if x in seen: as if (seen.has(x)) {); a for-loop header is emitted
\* without .has( .
C13_MembershipRewrittenOutsideForHeader ==
    [][TranslatingStep =>
          LET text == CurrentLine.text
          IN  IF forLoopPlaces(text) # {}
              THEN \A k \in 1..Len(EmittedLine.text) : EmittedLine.text[k].s # "has"
              ELSE /\ inCheckPlaces(text) # {} =>
                          HasCall(EmittedLine.text,
                                  text[Min(inCheckPlaces(text)) + 2].s,
                                  text[Min(inCheckPlaces(text))].s)
                   /\ TextOf(text) = "if x in seen:" =>
                          TextOf(EmittedLine.text) = "if (seen.has(x)) {"]_vars

C16_IfElifElseChain ==
    Compiled(SourceText.Chain) =>
        /\ ~transpiled.thrown
        /\ Texts(body) = <<"if (x > 0) {", "return 1", "} else if (x < 0) {",
                           "return 0", "} else {", "return x", "}">>

\* the body lines are indented by multiples of width, one level at a time
UsesWidth(ls, width) ==
    /\ ls # <<>>
    /\ ls[1].indent = width
    /\ \A k \in 1..Len(ls) :
           /\ ls[k].text # <<>>
           /\ ls[k].indent >= width
           /\ ls[k].indent % width = 0
           /\ k > 1 => ls[k].indent <= ls[k - 1].indent + width

\* the levels a translating step leaves on the stack before it pushes
LevelsKept ==
    IF translateLine(dedentedOf(CurrentLine, minIndent)).push
    THEN Front(indentStack')
    ELSE indentStack'

\* C17: in a text indented consistently by two spaces, four spaces or one
\* tab, a translated line at relative indentation r leaves open exactly the
\* blocks whose header is at an indentation less than r (a level T was
\* pushed by a header at T - 4) and closes the others.
C17_BlockOpenWhileDeeper ==
    [][(TranslatingStep /\ \E width \in {1, 2, 4} : UsesWidth(lines, width)) =>
          LET r == CurrentLine.indent - minIndent
              open == {k \in 2..Len(indentStack) : indentStack[k] - 4 < r}
          IN  LevelsKept = SubSeq(indentStack, 1, 1 + Cardinality(open))]_vars

\* C18: a translating step at relative indentation r pops exactly the levels
\* greater than r, which are the topmost ones, never the base level 0, and
\* emits one closing brace per popped level, the innermost first, before the
\* line's own text.
C18_PopsExactlyDeeperLevels ==
    [][TranslatingStep =>
          LET r == CurrentLine.indent - minIndent
              n == Cardinality({k \in 2..Len(indentStack) : indentStack[k] > r})
          IN  /\ LevelsKept = SubSeq(indentStack, 1, Len(indentStack) - n)
              /\ LevelsKept[1] = 0
              /\ \A k \in 2..Len(LevelsKept) : LevelsKept[k] <= r
              /\ Len(body') = Len(body) + n + 1
              /\ SubSeq(body', 1, Len(body)) = body
              /\ \A j \in 1..n :
                     body'[Len(body) + j]
                         = Line(4 * (Len(indentStack) - j), <<G("}")>>)
              /\ EmittedLine = translateLine(dedentedOf(CurrentLine, minIndent)).jsLine
      ]_vars

\* a line has just closed two blocks at once
C18_Witness ==
    /\ pc = "loop"
    /\ Len(body) >= 5
    /\ body[Len(body) - 2] = Line(8, <<G("}")>>)
    /\ body[Len(body) - 1] = Line(4, <<G("}")>>)
    /\ indentStack = <<0>>
    /\ pushCount = 2

\* C19: the indentation stack is never empty and its bottom is 0; when a
\* translation has ended it holds 0 only, and the closing braces emitted by
\* block closure are as many as the levels pushed.
C19_StackBalanced ==
    /\ Len(indentStack) >= 1
    /\ indentStack[1] = 0
    /\ pc = "loop" => pushCount = closeCount + Len(indentStack) - 1
    /\ (pc = "done" /\ functionMatch.found) =>
           /\ indentStack = <<0>>
           /\ closeCount = pushCount
           /\ Cardinality(ClosingLines(body)) = pushCount

\* a generated text with two blocks has been translated to its end
C19_Witness ==
    /\ pc = "done"
    /\ pythonCode \notin Catalogue
    /\ pushCount = 2
    /\ closeCount = 2
    /\ indentStack = <<0>>

\* the lines after the line of the matched header
LinesAfterHeader == From(pythonCode, functionMatch.index + 1)

\* C20: the lines the loop goes through are the lines after the line of the
\* matched def header, wherever that line is in the text.
C20_BodyIsWhatFollowsTheHeader ==
    (pc \in {"loop", "done"} /\ functionMatch.found) => lines = LinesAfterHeader

\* the fold of the loop's docstring tracking over ls: the lines the loop
\* skips neither as blank or comment lines nor as docstring lines
RECURSIVE StructuralLinesFrom(_, _, _)
StructuralLinesFrom(ls, inDoc, delimiter) ==
    IF ls = <<>> THEN <<>>
    ELSE LET line == Head(ls)
             rest == StructuralLinesFrom(Tail(ls),
                         IF lineKind(line, inDoc) = "skip"
                         THEN inDocstringAfter(line, inDoc, delimiter) ELSE inDoc,
                         IF lineKind(line, inDoc) = "skip"
                         THEN docstringDelimiterAfter(line, inDoc, delimiter)
                         ELSE delimiter)
         IN  IF isBlankOrComment(trim(line)) \/ inDoc \/ startsDocstring(trim(line))
             THEN rest
             ELSE <<line>> \o rest

StructuralLines == StructuralLinesFrom(lines, FALSE, "")

\* C21: the dedent baseline is the minimum indentation of the body lines
\* that the loop takes for neither blank, nor comment, nor docstring lines
\* (0 if there is none), so every such line is indented by at least the
\* baseline and is dedented by removing whitespace only.
C21_BaselineIsMinOverStructuralLines ==
    (pc \in {"loop", "done"} /\ functionMatch.found) =>
        /\ minIndent = IF StructuralLines = <<>> THEN 0
                       ELSE Min({StructuralLines[k].indent :
                                     k \in 1..Len(StructuralLines)})
        /\ \A k \in 1..Len(StructuralLines) :
               /\ StructuralLines[k].indent - minIndent >= 0
               /\ dedentedOf(StructuralLines[k], minIndent).text
                      = StructuralLines[k].text

\* the docstring state the claim gives after the lines ls: a line that starts
\* with a delimiter and is no single-line docstring opens one; the first
\* later line that equals or ends with that delimiter closes it
RECURSIVE StatedDocstringAfter(_, _)
StatedDocstringAfter(ls, open) ==
    IF ls = <<>> THEN open
    ELSE LET trimmed == trim(Head(ls))
         IN  StatedDocstringAfter(Tail(ls),
                 IF open # ""
                 THEN IF trimmed # <<>> /\ Last(trimmed).s = open THEN "" ELSE open
                 ELSE IF startsDocstring(trimmed) /\ ~isSingleLineDocstring(trimmed)
                 THEN trimmed[1].s
                 ELSE "")

\* C22: in the loop, a docstring is open exactly from the line that starts
\* with a delimiter (and is no single-line docstring) up to and including
\* the first later line that equals or ends with that delimiter; so the line
\* after that one is not skipped as docstring content.
C22_DocstringSkippedUpToItsEnd ==
    (pc \in {"loop", "done"} /\ functionMatch.found) =>
        /\ inDocstring = (StatedDocstringAfter(SubSeq(lines, 1, lineIndex), "") # "")
        /\ docstringDelimiter = StatedDocstringAfter(SubSeq(lines, 1, lineIndex), "")

\* the docstring lines among ls as the claim gives them
StatedDocstringLine(ls, k) ==
    \/ StatedDocstringAfter(SubSeq(ls, 1, k - 1), "") # ""
    \/ startsDocstring(trim(ls[k]))

\* the body (the lines after the header line) has only blank lines, comment
\* lines, docstring lines and lone pass lines
OnlySkippedLines ==
    /\ functionMatch.found
    /\ \A k \in 1..Len(LinesAfterHeader) :
           \/ isBlankOrComment(trim(LinesAfterHeader[k]))
           \/ StatedDocstringLine(LinesAfterHeader, k)
           \/ trim(LinesAfterHeader[k]) = <<G("pass")>>

\* C23: a text whose body has only blank lines, comment lines, docstring
\* lines and lone pass lines compiles without an error into a function whose
\* body is  return undefined;  and that returns undefined for any argument.
C23_SkippedBodyReturnsUndefined ==
    (pc = "done" /\ OnlySkippedLines) =>
        /\ ~transpiled.thrown
        /\ Texts(transpiled.value.body) = <<"return undefined;">>
        /\ \A x \in (0 - MaxArgument)..MaxArgument :
               callReturning(transpiled.value, <<Num(x)>>) = Return(Undefined)

\* the serializations of two values are equal: JSON.stringify returns for
\* both, and returns the same
SameSerialization(a, b) ==
    /\ ~JSONstringify(a).thrown
    /\ ~JSONstringify(b).thrown
    /\ JSONstringify(a).value = JSONstringify(b).value

\* C24: in a run of a compiled function, a case whose invocation returns
\* without throwing has passed = TRUE exactly when the serialization of the
\* returned value equals the serialization of the expected value, and a result
\* whose error is present never has passed = TRUE.
C24_PassedIffSerializationsEqual ==
    (RunCompiled /\ lastRun.hasResults) =>
        \A i \in 1..Len(lastRun.results) :
            /\ ~CallThrows(i) =>
                   (lastRun.results[i].passed
                        <=> SameSerialization(
                                Invoke(RunFunction, lastRun.calls[i]).value,
                                CasesOfRun[i].expected))
            /\ lastRun.results[i].error # Null => ~lastRun.results[i].passed

\* a final run with a returned value that passed, a returned value that
\* failed and a case with an error
C24_Witness ==
    /\ RunCompiled
    /\ lastRun.mode = "final"
    /\ \E i, j, k \in 1..Len(lastRun.results) :
           /\ ~CallThrows(i) /\ lastRun.results[i].passed
           /\ ~CallThrows(j) /\ ~lastRun.results[j].passed
           /\ lastRun.results[j].error = Null
           /\ lastRun.results[k].error # Null

\* a step in which the challenge scene is created
ChallengeCreated == challengeScene = "stopped" /\ challengeScene' = "running"

\* C25: the failed-attempt counter is always within 0..MAX_ATTEMPTS; it is 0
\* when a challenge is created, whatever it was before; and the only other
\* step that changes it is a final run with a failed case, which adds
\* exactly 1.
C25_CounterBoundedResetOnCreate ==
    [][/\ failedAttempts \in 0..MAX_ATTEMPTS
       /\ failedAttempts' \in 0..MAX_ATTEMPTS
       /\ ChallengeCreated => failedAttempts' = 0
       /\ (failedAttempts' # failedAttempts /\ ~ChallengeCreated)
              => (FailedFinalRunStep /\ failedAttempts' = failedAttempts + 1)]_vars

\* a challenge was left with two failed attempts on the counter and the
\* Game scene runs again: the next challenge is created from this state
C25_Witness ==
    /\ challengeScene = "stopped"
    /\ gameScene = "running"
    /\ failedAttempts = 2

\* a step in which a final run took place
FinalStep == lastRun' # lastRun /\ lastRun'.mode = "final"

\* C26: a final run whose source fails to compile shows one compile
\* diagnostic and no results, leaves the failed-attempt counter unchanged,
\* signals no success and leaves the scenes as they are.
C26_CompileErrorIsNoAttempt ==
    [][(FinalStep /\ evaluateUserCode(code).thrown) =>
          /\ lastRun'.shown = "error"
          /\ lastRun'.compileError = Str(ErrorText(evaluateUserCode(code)))
          /\ ~lastRun'.hasResults
          /\ lastRun'.results = <<>>
          /\ UNCHANGED <<failedAttempts, closeScheduled, gameScene,
                         challengeScene, gameOverScene, isDiamondPaused>>]_vars

\* a final run ended in a compile diagnostic with two failed attempts on
\* the counter, and the challenge is still open
C26_Witness ==
    /\ lastRun.mode = "final"
    /\ lastRun.shown = "error"
    /\ lastRun.compileError # Null
    /\ failedAttempts = 2
    /\ challengeScene = "running"
    /\ gameOverScene = "stopped"

\* a step in which the challenge scene is shut down
ChallengeClosed == challengeScene = "running" /\ challengeScene' = "stopped"

\* C27: a confirmed skip takes SKIP_PENALTY points from the score, not going
\* below 0, closes the challenge with the Game scene resumed and leaves the
\* failed-attempt counter as it is; while the challenge stays open (a
\* declined skip included) the score, the counter and the scenes stay as
\* they are.  (In GameSpec the skip is the only step that closes a
\* challenge.)
C27_SkipDeductsAndCloses ==
    [][/\ ChallengeClosed =>
              /\ score' = IF score >= 400 THEN score - 400 ELSE 0
              /\ gameScene' = "running"
              /\ ~isDiamondPaused'
              /\ UNCHANGED <<failedAttempts, gameOverScene, isPaused, distance>>
       /\ (challengeScene = "running" /\ challengeScene' = "running") =>
              UNCHANGED <<score, failedAttempts, gameScene, gameOverScene,
                          isDiamondPaused, problem>>]_vars

\* a challenge was skipped in a run without laser hits: the score is what
\* the distance gave, less the full penalty
C27_Witness ==
    /\ challengeScene = "stopped"
    /\ gameScene = "running"
    /\ ~isDiamondPaused
    /\ problem # NoProblem
    /\ score > 0
    /\ score = lastDistanceScore - 400

\* a step of update that is not returned from early
UpdateStep == distance' # distance

\* a step that is neither an update nor a skip and changes the score or a
\* cooldown: a laser hit
LaserHitStep ==
    /\ ~UpdateStep
    /\ ~ChallengeClosed
    /\ score' # score \/ laserHitCooldowns' # laserHitCooldowns

\* C28: the score is never negative; a laser hit sets it to the floor of
\* half of it, a skip to max(0, score - 100), and an update adds 0.25 per
\* whole pixel newly travelled, whatever was deducted before; no other step
\* changes it.  (score is held in quarters of a point.)
C28_ScoreNeverNegative ==
    [][/\ score >= 0 /\ score' >= 0
       /\ lastDistanceScore = distance \div 10
       /\ LaserHitStep => score' = 4 * ((score \div 4) \div 2)
       /\ ChallengeClosed => score' = IF score - 400 > 0 THEN score - 400 ELSE 0
       /\ UpdateStep =>
              /\ score' - score = (distance' \div 10) - (distance \div 10)
              /\ score' >= score
       /\ ~(LaserHitStep \/ ChallengeClosed \/ UpdateStep) => score' = score]_vars

\* after a skip and a laser hit the score is above 0 and below what the
\* distance gave
C28_Witness ==
    /\ challengeScene = "stopped"
    /\ problem # NoProblem
    /\ \E l \in Lasers : laserHitCooldowns[l] > 0
    /\ score > 0
    /\ score < lastDistanceScore - 400

\* C29: a laser reduces the score only while it is active and only when
\* update has processed at least LASER_HIT_COOLDOWN milliseconds since its
\* own latest hit; the hit starts the cooldown of that laser alone, so the
\* cooldown of one laser does not block another; and the cooldown entry of a
\* laser exists exactly while less than that time has been processed.
C29_LaserHitCooldownPerLaser ==
    [][/\ \A l \in Lasers :
              (laserHitCooldowns[l] > 0) <=> (sinceHit[l] < LASER_HIT_COOLDOWN)
       /\ (score' < score /\ ~ChallengeClosed) => LaserHitStep
       /\ LaserHitStep =>
              \E l \in Lasers :
                  /\ lasers[l] = "active"
                  /\ sinceHit[l] >= 200
                  /\ sinceHit'[l] = 0
                  /\ laserHitCooldowns'[l] = 200
                  /\ \A m \in Lasers \ {l} :
                         /\ laserHitCooldowns'[m] = laserHitCooldowns[m]
                         /\ sinceHit'[m] = sinceHit[m]]_vars

\* a laser has just hit while the cooldown of another laser, hit 100 ms of
\* updates earlier, is still running
C29_Witness ==
    \E l, m \in Lasers :
        /\ l # m
        /\ laserHitCooldowns[l] = 200
        /\ sinceHit[l] = 0
        /\ laserHitCooldowns[m] = 100
        /\ sinceHit[m] = 100
        /\ score > 0

\* challengeId is the id of a challenge of the cache
ChallengeFound(challengeId) == \E c \in challenges : c.id = challengeId

\* C30: at most one challenge is active.  While isDiamondPaused holds no step
\* launches a challenge or removes a diamond, and the ESC key does not toggle
\* isPaused.  A physics step removes the diamonds it meets up to and
\* including the one whose challenge it launches, and no other.
\* isDiamondPaused becomes false exactly when the challenge scene shuts down;
\* a diamond whose challenge id is not found leaves it false with the Game
\* scene running.
C30_OneChallengeAtATime ==
    [][/\ isDiamondPaused =>
              /\ removedDiamonds' = <<>>
              /\ isPaused' = isPaused
              /\ problem' = problem
              /\ ~ChallengeCreated
       /\ challengeScene' = "running" => isDiamondPaused'
       /\ removedDiamonds' # <<>> =>
              /\ \A k \in 1..(Len(removedDiamonds') - 1) :
                     ~ChallengeFound(removedDiamonds'[k])
              /\ isDiamondPaused'
                     <=> ChallengeFound(removedDiamonds'[Len(removedDiamonds')])
              /\ isDiamondPaused' =>
                     /\ ChallengeCreated
                     /\ problem'.id = removedDiamonds'[Len(removedDiamonds')]
              /\ ~isDiamondPaused' =>
                     /\ gameScene' = "running"
                     /\ challengeScene' = "stopped"
       /\ (isDiamondPaused /\ ~isDiamondPaused') <=> ChallengeClosed]_vars

\* one physics step met a diamond whose challenge id is not found and then a
\* diamond whose challenge it launched
C30_Witness ==
    /\ isDiamondPaused
    /\ gameScene = "paused"
    /\ challengeScene = "running"
    /\ Len(removedDiamonds) = 2
    /\ ~ChallengeFound(removedDiamonds[1])
    /\ problem.id = removedDiamonds[2]

====
